---- MODULE Spec2Model ----
(***************************************************************************)
(* Publish job lifecycle of the ABBA broker: the job store (lib/db.ts),    *)
(* the start, upload, cancel, status and complete request handlers         *)
(* (app/api/v1/publish/*/route.ts), the deployment service (deployBundle,  *)
(* pollDeploymentUntilReady) and the remote deployment provider they talk  *)
(* to.                                                                     *)
(*                                                                         *)
(* Every `await` of a handler is a suspension point: a handler is a        *)
(* sequence of atomic steps, each running from one await to the next, and  *)
(* the steps of different requests and pollers interleave freely.  A call  *)
(* to the job store is such an await (a network round trip when Supabase   *)
(* is configured); its effect on the store is atomic and is the merge of   *)
(* the given fields into the stored record, as updatePublishJob does it.   *)
(*                                                                         *)
(* The job store is taken to be available: a store call answers.  The one  *)
(* place where the code provides for a store call that throws and goes on  *)
(* is the try block of the poller's loop, and there a poll may fail by the *)
(* provider call or by the store write.                                    *)
(*                                                                         *)
(* The poller's wall-clock budget is counted in poll intervals.            *)
(*                                                                         *)
(* The library functions are also run on their own, each under its own     *)
(* specification: the job store's create, get and update with a ticking    *)
(* clock (StoreSpec), validateBundleSize (SizeSpec), getStatusProgress     *)
(* (ProgressSpec), the status endpoint's refresh beside the poller's       *)
(* switch (RefreshSpec), extractBundle in its two variants followed by     *)
(* ensureDefaultFiles (BundleSpec), the rate limiter (RateSpec), the       *)
(* upload handler for declared and payload hashes that differ (HashSpec),  *)
(* validateDeviceTokenDetailed on tokens as sequences of characters        *)
(* (AuthSpec), and the five handlers from their first line on, with the    *)
(* rate limiter and the auth gate before the try block (GateSpec).         *)
(***************************************************************************)
EXTENDS Integers, Sequences, FiniteSets, TLC

(* ------------------------------ bounds --------------------------------- *)

\* Number of job ids the id generator can hand out.
MaxJobs == 1
\* Number of upload, cancel, status and complete requests of one run.
MaxRequests == 2
\* Poller budget: the number of poll intervals that fit in maxWaitMs
\* (300000 / 3000 in the source), scaled down.
MaxPolls == 2
\* Payload lengths tried around 0 and around the size limit, on each side.
SizeMargin == 30

\* Calls of the job store's functions in a run of the store on its own, and
\* ticks of the clock during them.
MaxCalls == 4
MaxTicks == 2

\* The file limit of an extraction, standing for MAX_FILES = 10000.
MaxFiles == 2

\* Requests a client makes beyond the rate limit within one window.
MaxRejected == 2

JobIds == 1..MaxJobs

\* The requests of each endpoint that a run may hold, MaxRequests in all.
UploadReqs == {1, 2}
CancelReqs == {1}
StatusReqs == {1}
CompleteReqs == {1}

(* ------------------------------ values --------------------------------- *)

\* JavaScript null and undefined; every string value is a tuple, so that
\* template literals are tuples of their parts.
NULL == <<>>
UNDEFINED == <<"undefined">>
IsSet(v) == v # NULL /\ v # UNDEFINED

\* PublishStatusEnum
PublishStatus ==
  {"queued", "packaging", "uploading", "building", "deploying",
   "ready", "failed", "cancelled"}

TERMINAL_STATUSES == {"ready", "failed", "cancelled"}

isTerminalStatus(status) == status \in TERMINAL_STATUSES

\* Inputs of publish/start.
AppIds == {123}
BundleHashes == {"abc"}

\* 50 * 1024 * 1024
MAX_BUNDLE_SIZE == 52428800

\* 10 * 1024 * 1024
MAX_FILE_SIZE == 10485760

\* Payload lengths an upload may carry.
BundleSizes == {0, 1024, MAX_BUNDLE_SIZE, MAX_BUNDLE_SIZE + 1}

\* readyState values of the provider.
ReadyStates == {"QUEUED", "BUILDING", "READY", "ERROR", "CANCELED"}

VARIABLES
  inMemoryJobs,   \* the job store: id -> PublishJob, for the ids created
  VERCEL_TOKEN,   \* whether the deployment provider is configured
  deployments,    \* provider side: the job each created deployment is for
  uploads,        \* upload requests: position and locals
  pollers,        \* background pollers, one per upload request that starts one
  cancels,        \* cancel requests
  statusReqs,     \* status requests
  completes,      \* complete requests
  bundleSizeCall, \* a call of validateBundleSize on its own: argument, result
  call,           \* a call of a library function on its own: arguments, result
  now,            \* the clock, Date.now(), in ticks
  rateLimitStore  \* the rate limiter's map: client identity -> entry

\* What the request handlers do not touch: the state of the library
\* functions that are called on their own.
libVars == <<call, now, rateLimitStore>>

\* What the library functions called on their own do not touch.
handlerVars ==
  <<VERCEL_TOKEN, deployments, uploads, pollers, cancels, statusReqs,
    completes, bundleSizeCall>>

vars ==
  <<inMemoryJobs, VERCEL_TOKEN, deployments, uploads, pollers, cancels,
    statusReqs, completes, bundleSizeCall, call, now, rateLimitStore>>

(* ------------------------------ job store ------------------------------ *)

\* a || null for an optional string
OrNull(a) == IF a \in {UNDEFINED, NULL, <<"">>} THEN NULL ELSE a

\* A createPublishJob whose record starts out in status uploading.
NewPublishJobUploading(id, params) ==
  [ id |-> id,
    status |-> "uploading",
    app_id |-> params.appId,
    app_name |-> OrNull(params.appName),
    profile_id |-> OrNull(params.profileId),
    bundle_hash |-> <<params.bundleHash>>,
    bundle_size |-> params.bundleSize,
    bundle_path |-> NULL,
    vercel_deployment_id |-> NULL,
    vercel_project_id |-> NULL,
    url |-> NULL,
    error |-> NULL,
    created_at |-> now,
    updated_at |-> now ]

\* createPublishJob: the record of a new job under the id drawn for it; the
\* timestamps are the clock's reading, as a number of ticks.
NewPublishJob(id, params) ==
  [ id |-> id,
    status |-> "queued",
    app_id |-> params.appId,
    app_name |-> OrNull(params.appName),
    profile_id |-> OrNull(params.profileId),
    bundle_hash |-> <<params.bundleHash>>,
    bundle_size |-> params.bundleSize,
    bundle_path |-> NULL,
    vercel_deployment_id |-> NULL,
    vercel_project_id |-> NULL,
    url |-> NULL,
    error |-> NULL,
    created_at |-> now,
    updated_at |-> now ]

\* createPublishJob, in-memory: inMemoryJobs.set(job.id, job).
createPublishJob(store, id, params) ==
  [k \in DOMAIN store \cup {id} |->
     IF k = id THEN NewPublishJob(id, params) ELSE store[k]]

\* getPublishJob: the stored job or null.
getPublishJob(store, publishId) ==
  IF publishId \in DOMAIN store THEN store[publishId] ELSE NULL

\* An update that writes the given fields and leaves updated_at alone.
updatedJobStale(job, updates) == updates @@ job

\* updatePublishJob's merge: { ...job, ...updates, updated_at: now }.
updatedJob(job, updates) == ([updated_at |-> now] @@ updates) @@ job

\* An update that stores the given fields under an id the store does not
\* hold.
updatePublishJobUpsert(store, publishId, updates) ==
  [k \in DOMAIN store \cup {publishId} |->
     IF k = publishId
       THEN IF k \in DOMAIN store THEN updatedJob(store[k], updates)
                                  ELSE [updated_at |-> now] @@ updates
       ELSE store[k]]

\* updatePublishJob: the merged record is stored for a known id; the store
\* is left alone for an unknown id.
updatePublishJob(store, publishId, updates) ==
  IF publishId \notin DOMAIN store
    THEN store
    ELSE [store EXCEPT ![publishId] = updatedJob(store[publishId], updates)]

\* What updatePublishJob returns: the merged record, or null for an
\* unknown id.
updatePublishJobReturns(store, publishId, updates) ==
  IF publishId \notin DOMAIN store
    THEN NULL
    ELSE updatedJob(store[publishId], updates)

\* updateJobStatus: updatePublishJob(publishId, { status, ...extra }).
updateJobStatus(store, publishId, status, extra) ==
  updatePublishJob(store, publishId, extra @@ [status |-> status])

NoExtra == <<>>


(* ------------------------------ bundle --------------------------------- *)

\* A size validation that lets every payload through.
validateBundleSizeLenient(size) == [valid |-> TRUE, error |-> UNDEFINED]

\* A size validation that refuses a payload of exactly the limit.
validateBundleSizeStrict(size) ==
  IF size >= MAX_BUNDLE_SIZE
    THEN [valid |-> FALSE,
          error |-> <<"Bundle too large: ", size, " bytes (max ",
                      MAX_BUNDLE_SIZE, " bytes)">>]
    ELSE [valid |-> TRUE, error |-> UNDEFINED]

\* validateBundleSize
validateBundleSize(size) ==
  IF size > MAX_BUNDLE_SIZE
    THEN [valid |-> FALSE,
          error |-> <<"Bundle too large: ", size, " bytes (max ",
                      MAX_BUNDLE_SIZE, " bytes)">>]
    ELSE [valid |-> TRUE, error |-> UNDEFINED]

(* --------------------------- deployment service ------------------------ *)

\* A configuration check that always takes the provider to be there.
ProviderAssumedConfigured == TRUE

\* isVercelConfigured: !!VERCEL_TOKEN
isVercelConfigured == VERCEL_TOKEN

\* The id the provider gives the n-th deployment it creates.
DeploymentId(n) == <<"dpl_", n>>

\* generateProjectName: abba-app-<appId>-<first 8 chars of the hash>; the
\* hashes of the model are shorter than 8 characters.
generateProjectName(appId, bundleHash) ==
  <<"abba-app-", appId, "-", bundleHash>>

\* The id the provider reports for a project.
ProjectId(projectName) == <<"prj_">> \o projectName

\* What getDeploymentStatus returns for a provider record data:
\* url is https://<data.url> or null, errorMessage is passed through.
getDeploymentStatus(data) ==
  [ readyState |-> data.readyState,
    url |-> IF IsSet(data.url) THEN <<"https://">> \o data.url ELSE NULL,
    errorMessage |-> data.errorMessage ]

\* The provider records a status call may see: a url that is there or not
\* for a READY deployment, an error message that is there or not for one
\* in ERROR; the callers read neither field in the other states.
ProviderData(deploymentId) ==
  [ readyState : {"READY"},
    url : {UNDEFINED, deploymentId \o <<".vercel.app">>},
    errorMessage : {UNDEFINED} ]
  \cup
  [ readyState : {"ERROR"},
    url : {UNDEFINED},
    errorMessage : {UNDEFINED, <<"build failed">>} ]
  \cup
  [ readyState : ReadyStates \ {"READY", "ERROR"},
    url : {UNDEFINED},
    errorMessage : {UNDEFINED} ]

\* a || b for strings
OrElse(a, b) == IF IsSet(a) THEN a ELSE b

(* ------------------------------ requests ------------------------------- *)

NoResp == [code |-> 0]

IdleUpload ==
  [ pc |-> "idle", publishId |-> 0, job |-> NULL, bundleLength |-> NULL,
    actualHash |-> NULL, deploymentId |-> NULL, resp |-> NoResp ]

\* `last` is how the latest poll went: it was answered and handled, the
\* provider call threw, or the store write threw; for a poller that has
\* returned, how it ended: on a poll that was answered, or timed out.
IdlePoller ==
  [ pc |-> "off", publishId |-> 0, deploymentId |-> NULL, elapsed |-> 0,
    last |-> "none" ]

IdleCancel ==
  [ pc |-> "idle", publishId |-> 0, job |-> NULL, remote |-> "none",
    resp |-> NoResp ]

IdleStatus == [ pc |-> "idle", publishId |-> 0, job |-> NULL, resp |-> NoResp ]

IdleComplete == [ pc |-> "idle", publishId |-> 0, job |-> NULL, resp |-> NoResp ]

\* The fields of the job read that a handler uses after its getPublishJob.
View(job, fields) == [f \in fields |-> job[f]]

UploadFields == {"status", "app_id", "bundle_hash"}
CancelFields == {"status", "vercel_deployment_id"}
StatusFields == {"status", "url", "error", "vercel_deployment_id"}
CompleteFields == {"status", "url", "error"}

\* A finished request keeps its response only.
Done(req, resp) ==
  [f \in DOMAIN req |->
     CASE f = "pc" -> "done"
       [] f = "resp" -> resp
       [] f \in {"job", "bundleLength"} -> NULL
       [] OTHER -> req[f]]

\* The requests that have arrived so far.
Arrived ==
  Cardinality({u \in UploadReqs : uploads[u].pc # "idle"})
    + Cardinality({c \in CancelReqs : cancels[c].pc # "idle"})
    + Cardinality({s \in StatusReqs : statusReqs[s].pc # "idle"})
    + Cardinality({c \in CompleteReqs : completes[c].pc # "idle"})

\* A further request may arrive; the requests of an endpoint are taken in
\* order.
NextSlot(reqs, r) ==
  /\ Arrived < MaxRequests
  /\ reqs[r].pc = "idle"
  /\ IF r = 1 THEN TRUE ELSE reqs[r - 1].pc # "idle"

Init ==
  /\ inMemoryJobs = <<>>
  /\ VERCEL_TOKEN \in BOOLEAN
  /\ deployments = <<>>
  /\ uploads = [u \in UploadReqs |-> IdleUpload]
  /\ pollers = [u \in UploadReqs |-> IdlePoller]
  /\ cancels = [c \in CancelReqs |-> IdleCancel]
  /\ statusReqs = [s \in StatusReqs |-> IdleStatus]
  /\ completes = [c \in CompleteReqs |-> IdleComplete]
  /\ bundleSizeCall = NULL
  /\ call = NULL
  /\ now = 0
  /\ rateLimitStore = <<>>

(* --------------------------- publish/start ----------------------------- *)

\* POST /api/v1/publish/start with a valid body: createPublishJob under a
\* fresh id.
PublishStartCore(appId, bundleHash) ==
  /\ \E id \in JobIds : id \notin DOMAIN inMemoryJobs
  /\ LET id == CHOOSE i \in JobIds :
                 /\ i \notin DOMAIN inMemoryJobs
                 /\ \A k \in JobIds : k \notin DOMAIN inMemoryJobs => i <= k
     IN inMemoryJobs' =
          createPublishJob(inMemoryJobs, id,
            [appId |-> appId, appName |-> UNDEFINED, profileId |-> UNDEFINED,
             bundleHash |-> bundleHash, bundleSize |-> 1024])
  /\ UNCHANGED <<VERCEL_TOKEN, deployments, uploads, pollers, cancels,
                 statusReqs, completes, bundleSizeCall>>

\* A request that the rate limiter and the auth gate have admitted.
PublishStart(appId, bundleHash) ==
  /\ PublishStartCore(appId, bundleHash)
  /\ UNCHANGED libVars

(* --------------------------- publish/upload ---------------------------- *)

\* PUT: publishId present, `await getPublishJob(publishId)`; 404 when absent.
UploadGetJobCore(u, publishId) ==
  /\ NextSlot(uploads, u)
  /\ LET job == getPublishJob(inMemoryJobs, publishId) IN
       uploads' = [uploads EXCEPT ![u] =
         IF job = NULL
           THEN Done(@, [code |-> 404, error |-> <<"Publish job not found">>])
           ELSE [@ EXCEPT !.pc = "check", !.publishId = publishId,
                          !.job = View(job, UploadFields)]]
  /\ UNCHANGED <<inMemoryJobs, VERCEL_TOKEN, deployments, pollers, cancels,
                 statusReqs, completes, bundleSizeCall>>

\* A request that the rate limiter and the auth gate have admitted.
UploadGetJob(u, publishId) ==
  /\ UploadGetJobCore(u, publishId)
  /\ UNCHANGED libVars

\* A status check that lets every job in progress through.
UploadAllowedInProgress(job) == ~isTerminalStatus(job.status)

\* The upload handler's status check: job.status !== 'queued' is refused.
UploadAllowed(job) == job.status = "queued"

\* The status check on the job that was read, then
\* `await updateJobStatus(publishId, 'uploading')`.
UploadCheck(u) ==
  /\ uploads[u].pc = "check"
  /\ LET r == uploads[u] IN
       IF ~UploadAllowed(r.job)
         THEN /\ uploads' = [uploads EXCEPT ![u] =
                   Done(@, [code |-> 400,
                            error |-> <<"Cannot upload to job in status">>])]
              /\ UNCHANGED inMemoryJobs
         ELSE /\ inMemoryJobs' =
                   updateJobStatus(inMemoryJobs, r.publishId, "uploading", NoExtra)
              /\ uploads' = [uploads EXCEPT ![u].pc = "body"]
  /\ UNCHANGED <<VERCEL_TOKEN, deployments, pollers, cancels, statusReqs,
                 completes, bundleSizeCall, libVars>>

\* route.ts 98: the job declares a hash and the payload's hash is another.
hashMismatch(job, actualHash) ==
  /\ job.bundle_hash \notin {NULL, <<"">>}
  /\ <<actualHash>> # job.bundle_hash

\* The body is a buffer that passes the size validation.
BodyAccepted(body) ==
  body.kind = "buffer" /\ validateBundleSize(body.size).valid

\* What the handler does with a body it turns down: it could not be parsed
\* (the handler's catch answers 500), it is multipart without a bundle
\* part, or it is a buffer that fails the size validation.
BodyRejection(body) ==
  CASE body.kind = "throws" ->
         [ write |-> FALSE, status |-> "failed", extra |-> NoExtra,
           resp |-> [code |-> 500, error |-> <<"Upload failed">>],
           warned |-> FALSE ]
    [] body.kind = "nofile" ->
         [ write |-> TRUE, status |-> "failed",
           extra |-> [error |-> <<"No bundle file in form data">>],
           resp |-> [code |-> 400, error |-> <<"No bundle file provided">>],
           warned |-> FALSE ]
    [] body.kind = "buffer" ->
         [ write |-> TRUE, status |-> "failed",
           extra |-> [error |-> validateBundleSize(body.size).error],
           resp |-> [code |-> 400,
                     error |-> validateBundleSize(body.size).error],
           warned |-> FALSE ]

\* A handler that turns a payload down when its hash is not the declared
\* one.
UploadBodyStepHashChecked(job, body) ==
  IF BodyAccepted(body)
    THEN IF hashMismatch(job, body.hash)
           THEN [ write |-> TRUE, status |-> "failed",
                  extra |-> [error |-> <<"Bundle hash mismatch">>],
                  resp |-> [code |-> 400, error |-> <<"Bundle hash mismatch">>],
                  warned |-> TRUE ]
           ELSE [ write |-> TRUE, status |-> "packaging", extra |-> NoExtra,
                  resp |-> NoResp, warned |-> FALSE ]
    ELSE BodyRejection(body)

\* What the handler does with the body it has read, for the job it read
\* before: whether it writes a status, the status and the fields written
\* with it, the response it ends with (none when it goes on to the
\* extraction), and whether the hash warning is logged.  A payload whose
\* hash is not the declared one is logged and taken all the same.
UploadBodyStep(job, body) ==
  IF BodyAccepted(body)
    THEN [ write |-> TRUE, status |-> "packaging", extra |-> NoExtra,
           resp |-> NoResp, warned |-> hashMismatch(job, body.hash) ]
    ELSE BodyRejection(body)

\* The body has been read, then the size validation, the hash comparison
\* and `await updateJobStatus(publishId, 'packaging')`.
UploadBody(u, body) ==
  /\ uploads[u].pc = "body"
  /\ LET r == uploads[u]
         step == UploadBodyStep(r.job, body)
     IN
       /\ inMemoryJobs' =
            IF step.write
              THEN updateJobStatus(inMemoryJobs, r.publishId, step.status,
                                   step.extra)
              ELSE inMemoryJobs
       /\ uploads' = [uploads EXCEPT ![u] =
            IF step.resp # NoResp
              THEN Done(@, step.resp)
              ELSE [@ EXCEPT !.pc = "extract",
                             !.bundleLength = <<body.size>>,
                             !.actualHash = <<body.hash>>]]
  /\ UNCHANGED <<VERCEL_TOKEN, deployments, pollers, cancels, statusReqs,
                 completes, bundleSizeCall, libVars>>

\* The request bodies an upload may carry.
UploadBodies ==
  [kind : {"throws", "nofile"}, size : {0}, hash : {"abc"}]
    \cup [kind : {"buffer"}, size : BundleSizes, hash : BundleHashes]

\* extractBundle has settled: it threw (500 from the handler's catch), or
\* the files are there and the buffer is used no more; then the mock
\* deployment when the provider is not configured, else deployBundle up to
\* its createDeployment call, which starts with
\* `await updateJobStatus(publishId, 'deploying')`.
UploadExtract(u, extracted) ==
  /\ uploads[u].pc = "extract"
  /\ LET r == uploads[u] IN
       IF ~extracted
         THEN /\ uploads' = [uploads EXCEPT ![u] =
                   Done(@, [code |-> 500, error |-> <<"Upload failed">>])]
              /\ UNCHANGED inMemoryJobs
         ELSE IF ~isVercelConfigured
           THEN /\ inMemoryJobs' =
                     updateJobStatus(inMemoryJobs, r.publishId, "ready",
                       [url |-> <<"https://mock-", r.job.app_id, ".vercel.app">>])
                /\ uploads' = [uploads EXCEPT ![u] =
                     Done(@, [code |-> 200, success |-> TRUE,
                              message |-> <<"Bundle uploaded (mock deployment)">>])]
           ELSE /\ inMemoryJobs' =
                     updateJobStatus(inMemoryJobs, r.publishId, "deploying", NoExtra)
                /\ uploads' = [uploads EXCEPT ![u].pc = "create",
                                              ![u].bundleLength = NULL]
  /\ UNCHANGED <<VERCEL_TOKEN, deployments, pollers, cancels, statusReqs,
                 completes, bundleSizeCall, libVars>>


\* The error createDeployment throws when the provider refuses.
CreateErrors == { <<"Failed to create deployment: ", 500>> }

\* A catch of deployBundle that logs and rethrows without a store write.
DeployFailureLogged(store, publishId, message) == store

\* deployBundle's catch: `await updateJobStatus(publishId, 'failed',
\* { error: error.message })` before the rethrow.
DeployFailure(store, publishId, message) ==
  updateJobStatus(store, publishId, "failed", [error |-> message])

\* deployBundle, createDeployment has settled: it threw (the catch writes
\* failed with the error's message and rethrows, the handler answers 500),
\* or the provider has created the deployment.
UploadCreate(u, outcome) ==
  /\ uploads[u].pc = "create"
  /\ LET r == uploads[u] IN
       IF outcome \in CreateErrors
         THEN /\ inMemoryJobs' = DeployFailure(inMemoryJobs, r.publishId, outcome)
              /\ uploads' = [uploads EXCEPT ![u] =
                   Done(@, [code |-> 500, error |-> <<"Upload failed">>,
                            message |-> outcome])]
              /\ UNCHANGED deployments
         ELSE /\ deployments' = Append(deployments, r.publishId)
              /\ uploads' = [uploads EXCEPT
                   ![u].pc = "project",
                   ![u].deploymentId = DeploymentId(Len(deployments) + 1)]
              /\ UNCHANGED inMemoryJobs
  /\ UNCHANGED <<VERCEL_TOKEN, pollers, cancels, statusReqs, completes,
                 bundleSizeCall, libVars>>

\* The outcomes of createDeployment.
CreateOutcomes == CreateErrors \cup {<<"created">>}

\* The error of a project lookup that fails after the deployment exists.
ProjectError == <<"fetch failed">>

\* deployBundle, the project lookup after createDeployment has settled: it
\* threw (failed is written, 500), or it gave the project; then
\* `await updateJobStatus(publishId, 'building', {ids})`, the poller is
\* started and the request answers.
UploadProject(u, project) ==
  /\ uploads[u].pc = "project"
  /\ LET r == uploads[u]
         projectName == generateProjectName(r.job.app_id, r.actualHash)
     IN
       IF project = "throws"
         THEN /\ inMemoryJobs' =
                   DeployFailure(inMemoryJobs, r.publishId, ProjectError)
              /\ uploads' = [uploads EXCEPT ![u] =
                   Done(@, [code |-> 500, error |-> <<"Upload failed">>,
                            message |-> ProjectError])]
              /\ UNCHANGED pollers
         ELSE /\ inMemoryJobs' =
                   updateJobStatus(inMemoryJobs, r.publishId, "building",
                     [vercel_deployment_id |-> r.deploymentId,
                      vercel_project_id |-> ProjectId(projectName)])
              /\ pollers' = [pollers EXCEPT ![u] =
                   [pc |-> "poll", publishId |-> r.publishId,
                    deploymentId |-> r.deploymentId, elapsed |-> 0,
                    last |-> "none"]]
              /\ uploads' = [uploads EXCEPT ![u] =
                   Done(@, [code |-> 200, success |-> TRUE,
                            message |-> <<"Bundle uploaded, deployment started">>,
                            deploymentId |-> r.deploymentId])]
  /\ UNCHANGED <<VERCEL_TOKEN, deployments, cancels, statusReqs, completes,
                 bundleSizeCall, libVars>>

\* The outcomes of the project lookup.
ProjectOutcomes == {"throws", "found"}

(* --------------------------- poller ------------------------------------ *)

\* A switch that handles READY only and leaves every other state alone.
PollWriteReadyOnly(store, publishId, status) ==
  IF status.readyState = "READY"
    THEN updateJobStatus(store, publishId, "ready",
                         [url |-> IF IsSet(status.url) THEN status.url ELSE UNDEFINED])
    ELSE store

\* The store after the poller has handled one answer of getDeploymentStatus.
PollWrite(store, publishId, status) ==
  CASE status.readyState = "READY" ->
         updateJobStatus(store, publishId, "ready",
                         [url |-> OrElse(status.url, UNDEFINED)])
    [] status.readyState = "ERROR" ->
         updateJobStatus(store, publishId, "failed",
                         [error |-> OrElse(status.errorMessage,
                                           <<"Deployment failed">>)])
    [] status.readyState = "CANCELED" ->
         updateJobStatus(store, publishId, "cancelled", NoExtra)
    [] status.readyState = "BUILDING" ->
         updateJobStatus(store, publishId, "building", NoExtra)
    [] OTHER -> store

\* A poller that has returned keeps how it ended only.
PollerDone(poller, how) ==
  [poller EXCEPT !.pc = "done", !.elapsed = 0, !.last = how]

\* The provider states on which the poller returns.
PollReturns(readyState) == readyState \in {"READY", "ERROR", "CANCELED"}

\* One turn of pollDeploymentUntilReady's loop within the time budget:
\* getDeploymentStatus answers `data`, the switch writes and returns or
\* breaks, and the poller sleeps one interval.
PollIteration(u, data) ==
  /\ pollers[u].pc = "poll"
  /\ pollers[u].elapsed < MaxPolls
  /\ LET p == pollers[u]
         status == getDeploymentStatus(data)
     IN
       /\ inMemoryJobs' = PollWrite(inMemoryJobs, p.publishId, status)
       /\ pollers' = [pollers EXCEPT ![u] =
            IF PollReturns(status.readyState)
              THEN PollerDone(@, "answered")
              ELSE [@ EXCEPT !.elapsed = @ + 1, !.last = "answered"]]
  /\ UNCHANGED <<VERCEL_TOKEN, deployments, uploads, cancels, statusReqs,
                 completes, bundleSizeCall, libVars>>

\* A loop that starts its time budget anew after a poll that threw.
PollErrorRestartsBudget(u) ==
  /\ pollers[u].pc = "poll"
  /\ pollers[u].elapsed < MaxPolls
  /\ pollers' = [pollers EXCEPT ![u].elapsed = 0, ![u].last = "fetch threw"]
  /\ UNCHANGED <<inMemoryJobs, VERCEL_TOKEN, deployments, uploads, cancels,
                 statusReqs, completes, bundleSizeCall, libVars>>

\* A loop without the try: a provider call that throws ends the poller.
PollErrorAborts(u) ==
  /\ pollers[u].pc = "poll"
  /\ pollers[u].elapsed < MaxPolls
  /\ pollers' = [pollers EXCEPT ![u] = PollerDone(@, "fetch threw")]
  /\ UNCHANGED <<inMemoryJobs, VERCEL_TOKEN, deployments, uploads, cancels,
                 statusReqs, completes, bundleSizeCall, libVars>>

\* One turn of the loop in which getDeploymentStatus throws: the catch
\* logs, and the poller sleeps one interval.
PollError(u) ==
  /\ pollers[u].pc = "poll"
  /\ pollers[u].elapsed < MaxPolls
  /\ pollers' = [pollers EXCEPT ![u].elapsed = @ + 1, ![u].last = "fetch threw"]
  /\ UNCHANGED <<inMemoryJobs, VERCEL_TOKEN, deployments, uploads, cancels,
                 statusReqs, completes, bundleSizeCall, libVars>>

\* The provider states on which the switch calls updateJobStatus.
PollWrites(readyState) == readyState \in {"READY", "ERROR", "CANCELED", "BUILDING"}

\* One turn of the loop in which getDeploymentStatus answers a state of
\* PollWrites and the updateJobStatus of the switch throws: the catch logs,
\* nothing is written, no case returns, and the poller sleeps one interval.
PollStoreError(u) ==
  /\ pollers[u].pc = "poll"
  /\ pollers[u].elapsed < MaxPolls
  /\ \E data \in ProviderData(pollers[u].deploymentId) :
       PollWrites(getDeploymentStatus(data).readyState)
  /\ pollers' = [pollers EXCEPT ![u].elapsed = @ + 1, ![u].last = "write threw"]
  /\ UNCHANGED <<inMemoryJobs, VERCEL_TOKEN, deployments, uploads, cancels,
                 statusReqs, completes, bundleSizeCall, libVars>>

\* A poller that gives up at the end of its budget without a word.
PollTimeoutSilent(u) ==
  /\ pollers[u].pc = "poll"
  /\ pollers[u].elapsed >= MaxPolls
  /\ pollers' = [pollers EXCEPT ![u] = PollerDone(@, "timed out")]
  /\ UNCHANGED <<inMemoryJobs, VERCEL_TOKEN, deployments, uploads, cancels,
                 statusReqs, completes, bundleSizeCall, libVars>>

\* A loop with no time budget: nothing happens when the budget is used up.
PollTimeoutNever(u) ==
  /\ FALSE
  /\ UNCHANGED vars

\* The time budget is used up: failed is written and the poller returns.
PollTimeout(u) ==
  /\ pollers[u].pc = "poll"
  /\ pollers[u].elapsed >= MaxPolls
  /\ inMemoryJobs' =
       updateJobStatus(inMemoryJobs, pollers[u].publishId, "failed",
                       [error |-> <<"Deployment timed out after 5 minutes">>])
  /\ pollers' = [pollers EXCEPT ![u] = PollerDone(@, "timed out")]
  /\ UNCHANGED <<VERCEL_TOKEN, deployments, uploads, cancels, statusReqs,
                 completes, bundleSizeCall, libVars>>


(* --------------------------- publish/cancel ---------------------------- *)

\* POST with a valid body: `await getPublishJob(publishId)`; 404 when absent.
CancelGetJobCore(c, publishId) ==
  /\ NextSlot(cancels, c)
  /\ LET job == getPublishJob(inMemoryJobs, publishId) IN
       cancels' = [cancels EXCEPT ![c] =
         IF job = NULL
           THEN Done(@, [code |-> 404, error |-> <<"Publish job not found">>])
           ELSE [@ EXCEPT !.pc = "check", !.publishId = publishId,
                          !.job = View(job, CancelFields)]]
  /\ UNCHANGED <<inMemoryJobs, VERCEL_TOKEN, deployments, uploads, pollers,
                 statusReqs, completes, bundleSizeCall>>

\* A request that the rate limiter and the auth gate have admitted.
CancelGetJob(c, publishId) ==
  /\ CancelGetJobCore(c, publishId)
  /\ UNCHANGED libVars

\* The answer of a cancel request that has written cancelled.
CancelledResp == [code |-> 200, success |-> TRUE, status |-> "cancelled"]

\* A terminal check that lets a finished deployment be cancelled.
CancelRefusedUnlessReady(job) == job.status \in {"failed", "cancelled"}

\* The cancel handler's terminal check: isTerminalStatus(job.status).
CancelRefused(job) == isTerminalStatus(job.status)

\* A cancel handler that calls the provider for every job it cancels,
\* whether the job read has a deployment id or not.
CancelCheckAlwaysRemote(c) ==
  /\ cancels[c].pc = "check"
  /\ LET r == cancels[c] IN
       IF CancelRefused(r.job)
         THEN /\ cancels' = [cancels EXCEPT ![c] =
                   Done(@, [code |-> 200, success |-> FALSE,
                            status |-> r.job.status])]
              /\ UNCHANGED inMemoryJobs
         ELSE /\ cancels' = [cancels EXCEPT ![c].pc = "remote"]
              /\ UNCHANGED inMemoryJobs
  /\ UNCHANGED <<VERCEL_TOKEN, deployments, uploads, pollers, statusReqs,
                 completes, bundleSizeCall, libVars>>

\* The terminal check on the job that was read; then the remote cancel is
\* issued when the job read has a deployment id, else
\* `await updateJobStatus(publishId, 'cancelled')` and the answer.
CancelCheck(c) ==
  /\ cancels[c].pc = "check"
  /\ LET r == cancels[c] IN
       IF CancelRefused(r.job)
         THEN /\ cancels' = [cancels EXCEPT ![c] =
                   Done(@, [code |-> 200, success |-> FALSE,
                            status |-> r.job.status])]
              /\ UNCHANGED inMemoryJobs
         ELSE IF IsSet(r.job.vercel_deployment_id)
           THEN /\ cancels' = [cancels EXCEPT ![c].pc = "remote"]
                /\ UNCHANGED inMemoryJobs
           ELSE /\ inMemoryJobs' =
                     updateJobStatus(inMemoryJobs, r.publishId, "cancelled", NoExtra)
                /\ cancels' = [cancels EXCEPT ![c] = Done(@, CancelledResp)]
  /\ UNCHANGED <<VERCEL_TOKEN, deployments, uploads, pollers, statusReqs,
                 completes, bundleSizeCall, libVars>>

\* What cancelDeployment can do: return response.ok, or throw.
CancelOutcomes == {"true", "false", "throws"}

\* cancelDeployment has settled, with no try around it: a throw reaches
\* the handler's catch, which answers 500.
CancelRemoteUncaught(c, outcome) ==
  /\ cancels[c].pc = "remote"
  /\ inMemoryJobs' =
       IF outcome = "throws"
         THEN inMemoryJobs
         ELSE updateJobStatus(inMemoryJobs, cancels[c].publishId, "cancelled", NoExtra)
  /\ cancels' = [cancels EXCEPT ![c] =
       Done([@ EXCEPT !.remote = outcome],
            IF outcome = "throws"
              THEN [code |-> 500, error |-> <<"Internal server error">>]
              ELSE [code |-> 200, success |-> TRUE, status |-> "cancelled"])]
  /\ UNCHANGED <<VERCEL_TOKEN, deployments, uploads, pollers, statusReqs,
                 completes, bundleSizeCall, libVars>>

\* cancelDeployment has settled (a throw is caught and logged); then
\* `await updateJobStatus(publishId, 'cancelled')` and the answer.
CancelRemote(c, outcome) ==
  /\ cancels[c].pc = "remote"
  /\ inMemoryJobs' =
       updateJobStatus(inMemoryJobs, cancels[c].publishId, "cancelled", NoExtra)
  /\ cancels' = [cancels EXCEPT ![c] =
       Done([@ EXCEPT !.remote = outcome], CancelledResp)]
  /\ UNCHANGED <<VERCEL_TOKEN, deployments, uploads, pollers, statusReqs,
                 completes, bundleSizeCall, libVars>>

(* --------------------------- publish/status ---------------------------- *)

\* A progress table on which uploading is no further than packaging.
getStatusProgressFlat(status) ==
  CASE status = "queued" -> 5
    [] status = "packaging" -> 15
    [] status = "uploading" -> 15
    [] status = "building" -> 60
    [] status = "deploying" -> 85
    [] status = "ready" -> 100
    [] status = "failed" -> 0
    [] status = "cancelled" -> 0

\* STATUS_PROGRESS
getStatusProgress(status) ==
  CASE status = "queued" -> 5
    [] status = "packaging" -> 15
    [] status = "uploading" -> 35
    [] status = "building" -> 60
    [] status = "deploying" -> 85
    [] status = "ready" -> 100
    [] status = "failed" -> 0
    [] status = "cancelled" -> 0

\* The body of a status answer.
StatusResp(status, url, error) ==
  [ code |-> 200, status |-> status, progress |-> getStatusProgress(status),
    url |-> OrElse(url, UNDEFINED), error |-> OrElse(error, UNDEFINED) ]

\* GET: publishId present, `await getPublishJob(publishId)`; 404 when absent.
StatusGetJobCore(s, publishId) ==
  /\ NextSlot(statusReqs, s)
  /\ LET job == getPublishJob(inMemoryJobs, publishId) IN
       statusReqs' = [statusReqs EXCEPT ![s] =
         IF job = NULL
           THEN Done(@, [code |-> 404, error |-> <<"Publish job not found">>])
           ELSE [@ EXCEPT !.pc = "check", !.publishId = publishId,
                          !.job = View(job, StatusFields)]]
  /\ UNCHANGED <<inMemoryJobs, VERCEL_TOKEN, deployments, uploads, pollers,
                 cancels, completes, bundleSizeCall>>

\* A request that the rate limiter and the auth gate have admitted.
StatusGetJob(s, publishId) ==
  /\ StatusGetJobCore(s, publishId)
  /\ UNCHANGED libVars

\* A status handler that asks the provider about every job with a
\* deployment id, finished or not.
StatusCheckRefreshesFinished(s) ==
  /\ statusReqs[s].pc = "check"
  /\ LET job == statusReqs[s].job IN
       statusReqs' = [statusReqs EXCEPT ![s] =
         IF IsSet(job.vercel_deployment_id)
           THEN [@ EXCEPT !.pc = "fetch"]
           ELSE Done(@, StatusResp(job.status, job.url, job.error))]
  /\ UNCHANGED <<inMemoryJobs, VERCEL_TOKEN, deployments, uploads, pollers,
                 cancels, completes, bundleSizeCall, libVars>>

\* Terminal: the stored values are answered.  In progress with a
\* deployment id and status building or deploying: getDeploymentStatus is
\* issued.  Otherwise the stored values are answered.
StatusCheck(s) ==
  /\ statusReqs[s].pc = "check"
  /\ LET job == statusReqs[s].job IN
       statusReqs' = [statusReqs EXCEPT ![s] =
         IF isTerminalStatus(job.status)
           THEN Done(@, StatusResp(job.status, job.url, job.error))
           ELSE IF /\ IsSet(job.vercel_deployment_id)
                   /\ job.status \in {"building", "deploying"}
             THEN [@ EXCEPT !.pc = "fetch"]
             ELSE Done(@, StatusResp(job.status, job.url, job.error))]
  /\ UNCHANGED <<inMemoryJobs, VERCEL_TOKEN, deployments, uploads, pollers,
                 cancels, completes, bundleSizeCall, libVars>>

\* A refresh that reports the provider's error message as it is, with no
\* text of its own when there is none.
StatusRefreshBareError(job, status) ==
  CASE status.readyState = "READY" ->
         StatusResp("ready", status.url, job.error)
    [] status.readyState = "ERROR" ->
         StatusResp("failed", job.url, status.errorMessage)
    [] status.readyState = "CANCELED" ->
         StatusResp("cancelled", job.url, job.error)
    [] status.readyState = "BUILDING" ->
         StatusResp("building", job.url, job.error)
    [] OTHER -> StatusResp(job.status, job.url, job.error)

\* The status, url and error the status endpoint reports for the job read
\* and an answer of getDeploymentStatus.
StatusRefresh(job, status) ==
  CASE status.readyState = "READY" ->
         StatusResp("ready", status.url, job.error)
    [] status.readyState = "ERROR" ->
         StatusResp("failed", job.url,
                    OrElse(status.errorMessage, <<"Deployment failed">>))
    [] status.readyState = "CANCELED" ->
         StatusResp("cancelled", job.url, job.error)
    [] status.readyState = "BUILDING" ->
         StatusResp("building", job.url, job.error)
    [] OTHER -> StatusResp(job.status, job.url, job.error)

\* A status handler that stores what its refresh found.
StatusFetchStores(s, data) ==
  /\ statusReqs[s].pc = "fetch"
  /\ LET resp == StatusRefresh(statusReqs[s].job, getDeploymentStatus(data)) IN
       /\ statusReqs' = [statusReqs EXCEPT ![s] = Done(@, resp)]
       /\ inMemoryJobs' =
            updateJobStatus(inMemoryJobs, statusReqs[s].publishId, resp.status,
                            NoExtra)
  /\ UNCHANGED <<VERCEL_TOKEN, deployments, uploads, pollers,
                 cancels, completes, bundleSizeCall, libVars>>

\* getDeploymentStatus has answered `data`: the mapped values are answered.
StatusFetch(s, data) ==
  /\ statusReqs[s].pc = "fetch"
  /\ statusReqs' = [statusReqs EXCEPT ![s] =
       Done(@, StatusRefresh(statusReqs[s].job, getDeploymentStatus(data)))]
  /\ UNCHANGED <<inMemoryJobs, VERCEL_TOKEN, deployments, uploads, pollers,
                 cancels, completes, bundleSizeCall, libVars>>

\* getDeploymentStatus has thrown: the stored values are answered.
StatusFetchError(s) ==
  /\ statusReqs[s].pc = "fetch"
  /\ LET job == statusReqs[s].job IN
       statusReqs' = [statusReqs EXCEPT ![s] =
         Done(@, StatusResp(job.status, job.url, job.error))]
  /\ UNCHANGED <<inMemoryJobs, VERCEL_TOKEN, deployments, uploads, pollers,
                 cancels, completes, bundleSizeCall, libVars>>

(* --------------------------- publish/complete -------------------------- *)

\* POST with a valid body: `await getPublishJob(publishId)`; 404 when absent.
CompleteGetJobCore(c, publishId) ==
  /\ NextSlot(completes, c)
  /\ LET job == getPublishJob(inMemoryJobs, publishId) IN
       completes' = [completes EXCEPT ![c] =
         IF job = NULL
           THEN Done(@, [code |-> 404, error |-> <<"Publish job not found">>])
           ELSE [@ EXCEPT !.pc = "check", !.publishId = publishId,
                          !.job = View(job, CompleteFields)]]
  /\ UNCHANGED <<inMemoryJobs, VERCEL_TOKEN, deployments, uploads, pollers,
                 cancels, statusReqs, bundleSizeCall>>

\* A request that the rate limiter and the auth gate have admitted.
CompleteGetJob(c, publishId) ==
  /\ CompleteGetJobCore(c, publishId)
  /\ UNCHANGED libVars

\* The answer for the job that was read.
CompleteRespond(c) ==
  /\ completes[c].pc = "check"
  /\ LET job == completes[c].job IN
       completes' = [completes EXCEPT ![c] =
         Done(@,
           IF job.status = "queued"
             THEN [code |-> 400, error |-> <<"Bundle not uploaded yet">>]
             ELSE IF job.status \in {"uploading", "packaging", "building", "deploying"}
               THEN [code |-> 200, success |-> TRUE, status |-> job.status]
               ELSE [code |-> 200, success |-> (job.status = "ready"),
                     status |-> job.status, url |-> job.url, error |-> job.error])]
  /\ UNCHANGED <<inMemoryJobs, VERCEL_TOKEN, deployments, uploads, pollers,
                 cancels, statusReqs, bundleSizeCall, libVars>>

(* --------------------------- specification ----------------------------- *)

Next ==
  \/ \E appId \in AppIds, bundleHash \in BundleHashes : PublishStart(appId, bundleHash)
  \/ \E u \in UploadReqs, publishId \in JobIds : UploadGetJob(u, publishId)
  \/ \E u \in UploadReqs : UploadCheck(u)
  \/ \E u \in UploadReqs, body \in UploadBodies : UploadBody(u, body)
  \/ \E u \in UploadReqs, extracted \in BOOLEAN : UploadExtract(u, extracted)
  \/ \E u \in UploadReqs, outcome \in CreateOutcomes : UploadCreate(u, outcome)
  \/ \E u \in UploadReqs, project \in ProjectOutcomes : UploadProject(u, project)
  \/ \E u \in UploadReqs :
       \E data \in ProviderData(pollers[u].deploymentId) : PollIteration(u, data)
  \/ \E u \in UploadReqs : PollError(u)
  \/ \E u \in UploadReqs : PollStoreError(u)
  \/ \E u \in UploadReqs : PollTimeout(u)
  \/ \E c \in CancelReqs, publishId \in JobIds : CancelGetJob(c, publishId)
  \/ \E c \in CancelReqs : CancelCheck(c)
  \/ \E c \in CancelReqs, outcome \in CancelOutcomes : CancelRemote(c, outcome)
  \/ \E s \in StatusReqs, publishId \in JobIds : StatusGetJob(s, publishId)
  \/ \E s \in StatusReqs : StatusCheck(s)
  \/ \E s \in StatusReqs :
       /\ statusReqs[s].pc = "fetch"
       /\ \E data \in ProviderData(statusReqs[s].job.vercel_deployment_id) :
            StatusFetch(s, data)
  \/ \E s \in StatusReqs : StatusFetchError(s)
  \/ \E c \in CompleteReqs, publishId \in JobIds : CompleteGetJob(c, publishId)
  \/ \E c \in CompleteReqs : CompleteRespond(c)

Spec == Init /\ [][Next]_vars


\* The steps of the poller that upload request u started.
PollerRuns(u) ==
  \/ \E data \in ProviderData(pollers[u].deploymentId) : PollIteration(u, data)
  \/ PollError(u)
  \/ PollStoreError(u)
  \/ PollTimeout(u)

\* The event loop keeps running: a poller in its loop takes its next turn
\* (its sleeps end, its provider calls settle, time advances), and an
\* upload handler inside deployBundle goes on once the provider has
\* settled its call.
Fairness ==
  \A u \in UploadReqs :
    /\ WF_vars(PollerRuns(u))
    /\ WF_vars(\E project \in ProjectOutcomes : UploadProject(u, project))

\* The steps that write the job store or call the provider to change it:
\* start, upload, poller and cancel.  The status and complete handlers
\* only read, and are left out of the runs checked for progress.
LiveNext ==
  \/ \E appId \in AppIds, bundleHash \in BundleHashes : PublishStart(appId, bundleHash)
  \/ \E u \in UploadReqs, publishId \in JobIds : UploadGetJob(u, publishId)
  \/ \E u \in UploadReqs : UploadCheck(u)
  \/ \E u \in UploadReqs, body \in UploadBodies : UploadBody(u, body)
  \/ \E u \in UploadReqs, extracted \in BOOLEAN : UploadExtract(u, extracted)
  \/ \E u \in UploadReqs, outcome \in CreateOutcomes : UploadCreate(u, outcome)
  \/ \E u \in UploadReqs, project \in ProjectOutcomes : UploadProject(u, project)
  \/ \E u \in UploadReqs : PollerRuns(u)
  \/ \E c \in CancelReqs, publishId \in JobIds : CancelGetJob(c, publishId)
  \/ \E c \in CancelReqs : CancelCheck(c)
  \/ \E c \in CancelReqs, outcome \in CancelOutcomes : CancelRemote(c, outcome)

LiveSpec == Init /\ [][LiveNext]_vars /\ Fairness

(* --------------------------- validateBundleSize ------------------------ *)

\* The payload lengths validateBundleSize is called with on its own.
SizeInputs ==
  (0..SizeMargin)
    \cup ((MAX_BUNDLE_SIZE - SizeMargin)..(MAX_BUNDLE_SIZE + SizeMargin))

SizeInit ==
  /\ inMemoryJobs = <<>>
  /\ VERCEL_TOKEN \in BOOLEAN
  /\ deployments = <<>>
  /\ uploads = [u \in UploadReqs |-> IdleUpload]
  /\ pollers = [u \in UploadReqs |-> IdlePoller]
  /\ cancels = [c \in CancelReqs |-> IdleCancel]
  /\ statusReqs = [s \in StatusReqs |-> IdleStatus]
  /\ completes = [c \in CompleteReqs |-> IdleComplete]
  /\ bundleSizeCall \in [size : SizeInputs, result : {NULL}]
  /\ call = NULL
  /\ now = 0
  /\ rateLimitStore = <<>>

\* validateBundleSize(size) returns.
ValidateBundleSizeCall ==
  /\ bundleSizeCall.result = NULL
  /\ bundleSizeCall' =
       [bundleSizeCall EXCEPT !.result = validateBundleSize(bundleSizeCall.size)]
  /\ UNCHANGED <<inMemoryJobs, VERCEL_TOKEN, deployments, uploads, pollers,
                 cancels, statusReqs, completes, libVars>>

SizeNext == ValidateBundleSizeCall

SizeSpec == SizeInit /\ [][SizeNext]_vars

(* ------------------------- declared bundle hash ------------------------ *)

\* The hashes a job may declare at publish/start (bundleHash is any
\* string, the empty one included) and the hashes of the payloads sent.
DeclaredHashes == {"abc", "xyz", ""}
PayloadHashes == {"abc", "xyz"}

\* The request bodies of an upload whose hash may or may not be the
\* declared one.
HashBodies ==
  [kind : {"throws", "nofile"}, size : {0}, hash : {"abc"}]
    \cup [kind : {"buffer"}, size : BundleSizes, hash : PayloadHashes]

\* publish/start and the upload handler, for every pair of a declared hash
\* and a payload hash.
HashNext ==
  \/ \E appId \in AppIds, bundleHash \in DeclaredHashes :
       PublishStart(appId, bundleHash)
  \/ \E u \in UploadReqs, publishId \in JobIds : UploadGetJob(u, publishId)
  \/ \E u \in UploadReqs : UploadCheck(u)
  \/ \E u \in UploadReqs, body \in HashBodies : UploadBody(u, body)
  \/ \E u \in UploadReqs, extracted \in BOOLEAN : UploadExtract(u, extracted)
  \/ \E u \in UploadReqs, outcome \in CreateOutcomes : UploadCreate(u, outcome)
  \/ \E u \in UploadReqs, project \in ProjectOutcomes : UploadProject(u, project)

HashSpec == Init /\ [][HashNext]_vars

(* --------------------------- job store calls --------------------------- *)

\* The ids uuidv4 may draw, the parameters of createPublishJob and the
\* updates that updateJobStatus passes to updatePublishJob.
StoreIds == {1, 2}

CreateInputs ==
  { [appId |-> 123, appName |-> UNDEFINED, profileId |-> UNDEFINED,
     bundleHash |-> "abc", bundleSize |-> 1024],
    [appId |-> 456, appName |-> <<"My App">>, profileId |-> <<"user-123">>,
     bundleHash |-> "xyz", bundleSize |-> 2048] }

UpdateInputs ==
  { [status |-> "building", vercel_deployment_id |-> <<"dpl_123">>],
    [status |-> "ready", url |-> <<"https://my-app.vercel.app">>],
    [status |-> "ready", url |-> UNDEFINED],
    [status |-> "failed", error |-> <<"Deployment failed">>] }

\* How many store calls have been made.
CallSeq == IF call = NULL THEN 0 ELSE call.seq

\* createPublishJob(params) under the id uuidv4 draws, which no job has.
StoreCreate(id, params) ==
  /\ CallSeq < MaxCalls
  /\ id \notin DOMAIN inMemoryJobs
  /\ inMemoryJobs' = createPublishJob(inMemoryJobs, id, params)
  /\ call' = [seq |-> CallSeq + 1, op |-> "create", id |-> id,
              args |-> params, result |-> NewPublishJob(id, params)]
  /\ UNCHANGED <<handlerVars, now, rateLimitStore>>

\* updatePublishJob(publishId, updates).
StoreUpdate(publishId, updates) ==
  /\ CallSeq < MaxCalls
  /\ inMemoryJobs' = updatePublishJob(inMemoryJobs, publishId, updates)
  /\ call' = [seq |-> CallSeq + 1, op |-> "update", id |-> publishId,
              args |-> updates,
              result |-> updatePublishJobReturns(inMemoryJobs, publishId,
                                                 updates)]
  /\ UNCHANGED <<handlerVars, now, rateLimitStore>>

\* getPublishJob(publishId).
StoreGet(publishId) ==
  /\ CallSeq < MaxCalls
  /\ call' = [seq |-> CallSeq + 1, op |-> "get", id |-> publishId,
              args |-> NULL, result |-> getPublishJob(inMemoryJobs, publishId)]
  /\ UNCHANGED <<inMemoryJobs, handlerVars, now, rateLimitStore>>

\* Time passes between two calls.
StoreTick ==
  /\ now < MaxTicks
  /\ now' = now + 1
  /\ UNCHANGED <<inMemoryJobs, handlerVars, call, rateLimitStore>>

StoreNext ==
  \/ \E id \in StoreIds, params \in CreateInputs : StoreCreate(id, params)
  \/ \E publishId \in StoreIds, updates \in UpdateInputs :
       StoreUpdate(publishId, updates)
  \/ \E publishId \in StoreIds : StoreGet(publishId)
  \/ StoreTick

StoreSpec == Init /\ [][StoreNext]_vars

(* --------------------------- getStatusProgress ------------------------- *)

\* getStatusProgress is called on its own for two statuses.
ProgressInit ==
  /\ inMemoryJobs = <<>>
  /\ VERCEL_TOKEN \in BOOLEAN
  /\ deployments = <<>>
  /\ uploads = [u \in UploadReqs |-> IdleUpload]
  /\ pollers = [u \in UploadReqs |-> IdlePoller]
  /\ cancels = [c \in CancelReqs |-> IdleCancel]
  /\ statusReqs = [s \in StatusReqs |-> IdleStatus]
  /\ completes = [c \in CompleteReqs |-> IdleComplete]
  /\ bundleSizeCall = NULL
  /\ call \in [op : {"progress"}, first : PublishStatus,
               second : PublishStatus, result : {NULL}]
  /\ now = 0
  /\ rateLimitStore = <<>>

\* getStatusProgress(first) and getStatusProgress(second) return.
GetStatusProgressCall ==
  /\ call.result = NULL
  /\ call' = [call EXCEPT !.result = << getStatusProgress(call.first),
                                        getStatusProgress(call.second) >>]
  /\ UNCHANGED <<inMemoryJobs, handlerVars, now, rateLimitStore>>

ProgressNext == GetStatusProgressCall

ProgressSpec == ProgressInit /\ [][ProgressNext]_vars

(* ----------------------- status refresh and poller --------------------- *)

\* The provider records and the jobs read for which the status endpoint's
\* refresh and the poller's switch are run side by side: every readyState,
\* one the switches do not name included, with and without a url and an
\* error message; jobs in building or deploying with a deployment id.
RefreshData ==
  [ readyState : ReadyStates \cup {"INITIALIZING"},
    url : {UNDEFINED, <<"dpl_1.vercel.app">>},
    errorMessage : {UNDEFINED, <<"build failed">>} ]

RefreshJobs ==
  [ status : {"building", "deploying"},
    url : {NULL, <<"https://old.vercel.app">>},
    error : {NULL, <<"old error">>},
    vercel_deployment_id : {<<"dpl_1">>} ]

RefreshInit ==
  /\ inMemoryJobs = <<>>
  /\ VERCEL_TOKEN \in BOOLEAN
  /\ deployments = <<>>
  /\ uploads = [u \in UploadReqs |-> IdleUpload]
  /\ pollers = [u \in UploadReqs |-> IdlePoller]
  /\ cancels = [c \in CancelReqs |-> IdleCancel]
  /\ statusReqs = [s \in StatusReqs |-> IdleStatus]
  /\ completes = [c \in CompleteReqs |-> IdleComplete]
  /\ bundleSizeCall = NULL
  /\ call \in [op : {"refresh"}, job : RefreshJobs, data : RefreshData,
               result : {NULL}]
  /\ now = 0
  /\ rateLimitStore = <<>>

\* For the job read and the provider's answer: what the status endpoint
\* reports after its refresh, and the job the poller's switch leaves in the
\* store.
RefreshCall ==
  /\ call.result = NULL
  /\ LET status == getDeploymentStatus(call.data) IN
       call' = [call EXCEPT !.result =
         [ reported |-> StatusRefresh(call.job, status),
           stored |-> PollWrite([k \in {1} |-> call.job], 1, status)[1] ]]
  /\ UNCHANGED <<inMemoryJobs, handlerVars, now, rateLimitStore>>

RefreshNext == RefreshCall

RefreshSpec == RefreshInit /\ [][RefreshNext]_vars

(* ------------------- extractBundle, ensureDefaultFiles ----------------- *)

\* The entries an uploaded archive may hold.  A path is the tuple of its
\* segments between the slashes; uncompressedSize is what the entry's
\* header says (0 when the header carries no size), length is the length of
\* the content that is read.
ArchiveEntries ==
  { [path |-> <<"index.html">>, dir |-> FALSE,
     uncompressedSize |-> 1, length |-> 1],
    [path |-> <<"dist", "index.html">>, dir |-> FALSE,
     uncompressedSize |-> 1, length |-> 1],
    [path |-> <<"app.js">>, dir |-> FALSE,
     uncompressedSize |-> MAX_FILE_SIZE, length |-> MAX_FILE_SIZE],
    [path |-> <<"big.bin">>, dir |-> FALSE,
     uncompressedSize |-> MAX_FILE_SIZE + 1, length |-> MAX_FILE_SIZE + 1],
    [path |-> <<"video.mp4">>, dir |-> FALSE,
     uncompressedSize |-> 0, length |-> MAX_FILE_SIZE + 1],
    [path |-> <<"assets">>, dir |-> TRUE,
     uncompressedSize |-> 0, length |-> 0],
    [path |-> <<"assets", ".DS_Store">>, dir |-> FALSE,
     uncompressedSize |-> 1, length |-> 1],
    [path |-> <<"Thumbs.db">>, dir |-> FALSE,
     uncompressedSize |-> 1, length |-> 1] }

\* An archive holds up to one entry more than the file limit.
Archives == UNION {[1..n -> ArchiveEntries] : n \in 0..(MaxFiles + 1)}

\* path.split('/').pop() || ''
basename(path) == IF path = <<>> THEN "" ELSE path[Len(path)]

\* basename.startsWith('.') || basename === 'Thumbs.db' ||
\* basename === 'desktop.ini', for the names the archives hold.
IsJunk(name) == name \in {".DS_Store", "Thumbs.db", "desktop.ini"}

\* The DeploymentFile pushed for an entry: its path and its content.
DeploymentFile(entry) ==
  [file |-> entry.path, data |-> <<"content", entry.length>>]

\* extractBundle of lib/bundle.ts, entry by entry: directories, entries
\* whose header size is over MAX_FILE_SIZE, junk names and entries past the
\* file limit are drained; the others are read and pushed.
RECURSIVE extractEntries(_, _)
extractEntries(entries, files) ==
  IF entries = <<>>
    THEN files
    ELSE LET entry == Head(entries)
             size == entry.uncompressedSize
         IN IF entry.dir
              THEN extractEntries(Tail(entries), files)
              ELSE IF size > MAX_FILE_SIZE
                THEN extractEntries(Tail(entries), files)
                ELSE IF IsJunk(basename(entry.path))
                  THEN extractEntries(Tail(entries), files)
                  ELSE IF Len(files) >= MaxFiles
                    THEN extractEntries(Tail(entries), files)
                    ELSE extractEntries(Tail(entries),
                                        Append(files, DeploymentFile(entry)))

extractBundle(archive) == extractEntries(archive, <<>>)

\* extractBundle of the JSZip variant, entry by entry: directories and
\* junk names are skipped, the loop ends at the file limit, the content is
\* read and skipped when it is longer than MAX_FILE_SIZE.
RECURSIVE extractEntriesJSZip(_, _)
extractEntriesJSZip(entries, files) ==
  IF entries = <<>>
    THEN files
    ELSE LET entry == Head(entries) IN
         IF entry.dir
           THEN extractEntriesJSZip(Tail(entries), files)
           ELSE IF IsJunk(basename(entry.path))
             THEN extractEntriesJSZip(Tail(entries), files)
             ELSE IF Len(files) >= MaxFiles
               THEN files
               ELSE IF entry.length > MAX_FILE_SIZE
                 THEN extractEntriesJSZip(Tail(entries), files)
                 ELSE extractEntriesJSZip(Tail(entries),
                                          Append(files, DeploymentFile(entry)))

extractBundleJSZip(archive) == extractEntriesJSZip(archive, <<>>)

\* f.file === 'index.html' || f.file.endsWith('/index.html')
IsIndexHtml(file) ==
  \/ file = <<"index.html">>
  \/ Len(file) >= 2 /\ file[Len(file)] = "index.html"

\* The placeholder that ensureDefaultFiles pushes.
DefaultIndexHtml ==
  [file |-> <<"index.html">>, data |-> <<"<h1>ABBA App</h1>">>]

\* ensureDefaultFiles: the placeholder is pushed when no file is an
\* index.html at any depth.
ensureDefaultFiles(files) ==
  IF \E i \in 1..Len(files) : IsIndexHtml(files[i].file)
    THEN files
    ELSE Append(files, DefaultIndexHtml)

\* An archive is handed to one of the two extractBundle variants.
BundleInit ==
  /\ inMemoryJobs = <<>>
  /\ VERCEL_TOKEN = FALSE
  /\ deployments = <<>>
  /\ uploads = [u \in UploadReqs |-> IdleUpload]
  /\ pollers = [u \in UploadReqs |-> IdlePoller]
  /\ cancels = [c \in CancelReqs |-> IdleCancel]
  /\ statusReqs = [s \in StatusReqs |-> IdleStatus]
  /\ completes = [c \in CompleteReqs |-> IdleComplete]
  /\ bundleSizeCall = NULL
  /\ call \in [op : {"bundle"}, variant : {"unzipper", "jszip"},
               archive : Archives, files : {NULL}, deployFiles : {NULL}]
  /\ now = 0
  /\ rateLimitStore = <<>>

\* `const { files } = await extractBundle(bundleBuffer)`
ExtractBundleCall ==
  /\ call.files = NULL
  /\ call.deployFiles = NULL
  /\ call' = [call EXCEPT !.files =
       <<IF call.variant = "unzipper" THEN extractBundle(call.archive)
                                      ELSE extractBundleJSZip(call.archive)>>]
  /\ UNCHANGED <<inMemoryJobs, handlerVars, now, rateLimitStore>>

\* `const deployFiles = ensureDefaultFiles(files)`
EnsureDefaultFilesCall ==
  /\ call.files # NULL
  /\ call.deployFiles = NULL
  /\ call' = [call EXCEPT !.deployFiles = <<ensureDefaultFiles(call.files[1])>>]
  /\ UNCHANGED <<inMemoryJobs, handlerVars, now, rateLimitStore>>

BundleNext ==
  \/ ExtractBundleCall
  \/ EnsureDefaultFilesCall

BundleSpec == BundleInit /\ [][BundleNext]_vars

(* ------------------------------ rate limit ----------------------------- *)

\* 60 * 1000
RATE_LIMIT_WINDOW_MS == 60000

RATE_LIMIT_MAX_REQUESTS == 60

\* The requests whose rate is limited, by the headers that identify the
\* client: x-forwarded-for (a comma-separated list) and x-real-ip.
RateRequests ==
  { [forwarded |-> <<"1.2.3.4", "10.0.0.1">>, realIp |-> NULL],
    [forwarded |-> NULL, realIp |-> <<"1.2.3.4">>],
    [forwarded |-> NULL, realIp |-> NULL] }

\* getClientIp: the first address of x-forwarded-for, else x-real-ip, else
\* 'unknown'.
getClientIp(request) ==
  IF request.forwarded # NULL
    THEN request.forwarded[1]
    ELSE IF request.realIp # NULL THEN request.realIp[1] ELSE "unknown"

\* A window that is never taken to have expired.
WindowNeverExpires(entry, t) == FALSE

\* entry.resetTime < now
WindowExpired(entry, t) == entry.resetTime < t

\* A limit that turns down the request that reaches RATE_LIMIT_MAX_REQUESTS.
RateLimitedAtLimit(count) == count >= RATE_LIMIT_MAX_REQUESTS

\* entry.count > RATE_LIMIT_MAX_REQUESTS
RateLimited(count) == count > RATE_LIMIT_MAX_REQUESTS

\* Math.ceil((entry.resetTime - now) / 1000), for resetTime >= now
retryAfter(entry, t) == (entry.resetTime - t + 999) \div 1000

\* checkRateLimit(request) at time t: the map it leaves, what it found in
\* the map for the client, and the response: none (the request is admitted,
\* code 0) or 429.
checkRateLimit(store, request, t) ==
  LET ip == getClientIp(request)
      entry == IF ip \in DOMAIN store THEN store[ip] ELSE NULL
  IN IF entry = NULL \/ WindowExpired(entry, t)
       THEN [ store |-> [k \in DOMAIN store \cup {ip} |->
                           IF k = ip
                             THEN [count |-> 1,
                                   resetTime |-> t + RATE_LIMIT_WINDOW_MS]
                             ELSE store[k]],
              found |-> entry,
              resp |-> NoResp ]
       ELSE [ store |-> [store EXCEPT ![ip].count = entry.count + 1],
              found |-> entry,
              resp |-> IF RateLimited(entry.count + 1)
                         THEN [code |-> 429,
                               retryAfter |-> retryAfter(entry, t)]
                         ELSE NoResp ]

\* The client has an open window in which it may be counted once more
\* within the number of requests tried.
CountInBounds(store, request, t) ==
  LET ip == getClientIp(request) IN
    IF ip \in DOMAIN store
      THEN IF WindowExpired(store[ip], t)
             THEN TRUE
             ELSE store[ip].count < RATE_LIMIT_MAX_REQUESTS + MaxRejected
      ELSE TRUE

\* checkRateLimit(request) on the rate limiter's map, now.
RateCheck(request) ==
  LET r == checkRateLimit(rateLimitStore, request, now) IN
    /\ CountInBounds(rateLimitStore, request, now)
    /\ rateLimitStore' = r.store
    /\ call' = [op |-> "checkRateLimit", ip |-> getClientIp(request),
                found |-> r.found, resp |-> r.resp]

\* checkRateLimit is called for a request.
RateLimitCall(request) ==
  /\ RateCheck(request)
  /\ UNCHANGED <<inMemoryJobs, handlerVars, now>>

\* cleanupExpiredEntries, run by the interval timer.
RateCleanup ==
  /\ rateLimitStore' =
       [k \in {i \in DOMAIN rateLimitStore : ~(rateLimitStore[i].resetTime < now)}
          |-> rateLimitStore[k]]
  /\ UNCHANGED <<inMemoryJobs, handlerVars, call, now>>

\* One window's length of time passes.
RateTick ==
  /\ now < MaxTicks * RATE_LIMIT_WINDOW_MS
  /\ now' = now + RATE_LIMIT_WINDOW_MS
  /\ UNCHANGED <<inMemoryJobs, handlerVars, call, rateLimitStore>>

RateNext ==
  \/ \E request \in RateRequests : RateLimitCall(request)
  \/ RateCleanup
  \/ RateTick

RateSpec == Init /\ [][RateNext]_vars

(* --------------------------------- auth -------------------------------- *)

\* Longest token tried, in characters.
MaxTokenLen == 2

\* The characters of a token: two letters, a blank, and a letter outside
\* ASCII, which is one UTF-16 code unit and two bytes of UTF-8.
TokenChars == {"a", "b", " ", "U+00E9"}

\* A string is the 1-tuple of its sequence of characters, so that the empty
\* string is not null.
Str(chars) == <<chars>>
Chars(s) == s[1]

TokenStrings ==
  {Str(c) : c \in UNION {[1..n -> TokenChars] : n \in 0..MaxTokenLen}}

\* Buffer.from(s): the UTF-8 bytes of the string.
RECURSIVE Utf8(_)
Utf8(chars) ==
  IF chars = <<>>
    THEN <<>>
    ELSE (IF Head(chars) = "U+00E9" THEN <<"C3", "A9">> ELSE <<Head(chars)>>)
           \o Utf8(Tail(chars))

\* String.prototype.trim
RECURSIVE TrimStart(_)
TrimStart(chars) ==
  IF chars # <<>> /\ Head(chars) = " " THEN TrimStart(Tail(chars)) ELSE chars

RECURSIVE TrimEnd(_)
TrimEnd(chars) ==
  IF chars # <<>> /\ chars[Len(chars)] = " "
    THEN TrimEnd(SubSeq(chars, 1, Len(chars) - 1))
    ELSE chars

trim(s) == Str(TrimEnd(TrimStart(Chars(s))))

\* getServerToken: the trimmed value of ABBA_DEVICE_TOKEN, or null when it
\* is unset, empty or blank.
getServerToken(env) ==
  IF env # NULL /\ env # Str(<<>>) /\ trim(env) # Str(<<>>)
    THEN trim(env)
    ELSE NULL

\* crypto.timingSafeEqual: it throws a RangeError for buffers of different
\* byte lengths.
timingSafeEqual(x, y) ==
  IF Len(x) # Len(y) THEN "throws" ELSE IF x = y THEN "true" ELSE "false"

\* constantTimeCompare: a.length is the number of UTF-16 code units.
constantTimeCompare(a, b) ==
  IF Len(Chars(a)) # Len(Chars(b))
    THEN "false"
    ELSE timingSafeEqual(Utf8(Chars(a)), Utf8(Chars(b)))

\* validateDeviceTokenDetailed: the result it returns, or the error that
\* leaves it.
validateDeviceTokenDetailed(env, token) ==
  LET serverToken == getServerToken(env) IN
    IF serverToken = NULL
      THEN [valid |-> FALSE, reason |-> "not_configured"]
      ELSE IF token = NULL \/ token = Str(<<>>)
        THEN [valid |-> FALSE, reason |-> "missing"]
        ELSE LET same == constantTimeCompare(token, serverToken) IN
          CASE same = "true" -> [valid |-> TRUE]
            [] same = "false" -> [valid |-> FALSE, reason |-> "invalid"]
            [] same = "throws" -> [throws |-> "RangeError"]

\* ABBA_DEVICE_TOKEN is unset (no value, written as null here) or some
\* string; the presented token is null (no header) or some string.
AuthInit ==
  /\ inMemoryJobs = <<>>
  /\ VERCEL_TOKEN \in BOOLEAN
  /\ deployments = <<>>
  /\ uploads = [u \in UploadReqs |-> IdleUpload]
  /\ pollers = [u \in UploadReqs |-> IdlePoller]
  /\ cancels = [c \in CancelReqs |-> IdleCancel]
  /\ statusReqs = [s \in StatusReqs |-> IdleStatus]
  /\ completes = [c \in CompleteReqs |-> IdleComplete]
  /\ bundleSizeCall = NULL
  /\ call \in [op : {"auth"}, env : TokenStrings \cup {NULL},
               token : TokenStrings \cup {NULL}, result : {NULL}]
  /\ now = 0
  /\ rateLimitStore = <<>>

\* validateDeviceTokenDetailed(token) returns or throws.
ValidateDeviceTokenCall ==
  /\ call.result = NULL
  /\ call' = [call EXCEPT !.result =
                validateDeviceTokenDetailed(call.env, call.token)]
  /\ UNCHANGED <<inMemoryJobs, handlerVars, now, rateLimitStore>>

AuthNext == ValidateDeviceTokenCall

AuthSpec == AuthInit /\ [][AuthNext]_vars

(* --------------------- rate limit and auth before a handler ------------ *)

\* Requests that arrive at the endpoints in a run of the gates.
MaxGated == 3

\* requireAuth: null for a valid token, else the 503 or 401 response, or
\* the error that leaves validateDeviceTokenDetailed.
requireAuth(env, token) ==
  LET result == validateDeviceTokenDetailed(env, token) IN
    IF "throws" \in DOMAIN result
      THEN result
      ELSE IF result.valid
        THEN NULL
        ELSE IF result.reason = "not_configured"
          THEN [code |-> 503, error |-> "BrokerMisconfigured"]
          ELSE [code |-> 401, error |-> "Unauthorized",
                message |-> IF result.reason = "missing"
                              THEN "Missing device token"
                              ELSE "Invalid device token"]

\* The first call of an endpoint's try block that reaches the job store.
StoreCallOf(endpoint) ==
  IF endpoint = "start" THEN "createPublishJob" ELSE "getPublishJob"

\* Handlers that ask for the token first and count the request after.
GateAuthFirst(store, t, env, request, endpoint) ==
  LET authError == requireAuth(env, request.token)
      limit == checkRateLimit(store, request, t)
  IN IF authError # NULL
       THEN [store |-> store, trace |-> <<"requireAuth">>, resp |-> authError]
       ELSE IF limit.resp # NoResp
         THEN [store |-> limit.store,
               trace |-> <<"requireAuth", "checkRateLimit">>,
               resp |-> limit.resp]
         ELSE [store |-> limit.store,
               trace |-> <<"requireAuth", "checkRateLimit",
                           StoreCallOf(endpoint)>>,
               resp |-> NoResp]

\* The head of every publish handler: checkRateLimit, and its response is
\* returned when there is one; then requireAuth, and its response is
\* returned when there is one; then the try block.  The result is the rate
\* limiter's map, the calls made in their order, and the response the
\* gates return (none for a request they admit).
Gate(store, t, env, request, endpoint) ==
  LET limit == checkRateLimit(store, request, t)
      authError == requireAuth(env, request.token)
  IN IF limit.resp # NoResp
       THEN [store |-> limit.store, trace |-> <<"checkRateLimit">>,
             resp |-> limit.resp]
       ELSE IF authError # NULL
         THEN [store |-> limit.store,
               trace |-> <<"checkRateLimit", "requireAuth">>,
               resp |-> authError]
         ELSE [store |-> limit.store,
               trace |-> <<"checkRateLimit", "requireAuth",
                           StoreCallOf(endpoint)>>,
               resp |-> NoResp]

\* The requests of one client: no token, the server's token, another
\* token, and a token with a character outside ASCII.
GateRequests ==
  [ forwarded : {NULL}, realIp : {<<"1.2.3.4">>},
    token : {NULL, Str(<<"a">>), Str(<<"b">>), Str(<<"U+00E9">>)} ]

\* The server's token is unset or set; the client is new, or has made one
\* request less than the limit in the window that is open.
GateInit ==
  /\ inMemoryJobs = <<>>
  /\ VERCEL_TOKEN \in BOOLEAN
  /\ deployments = <<>>
  /\ uploads = [u \in UploadReqs |-> IdleUpload]
  /\ pollers = [u \in UploadReqs |-> IdlePoller]
  /\ cancels = [c \in CancelReqs |-> IdleCancel]
  /\ statusReqs = [s \in StatusReqs |-> IdleStatus]
  /\ completes = [c \in CompleteReqs |-> IdleComplete]
  /\ bundleSizeCall = NULL
  /\ call \in [op : {"gate"}, env : {NULL, Str(<<"a">>)}, seq : {0},
               endpoint : {"none"}, request : {NULL}, trace : {<<>>},
               resp : {NoResp}]
  /\ now = 0
  /\ rateLimitStore \in
       { <<>>,
         [ip \in {"1.2.3.4"} |->
            [count |-> RATE_LIMIT_MAX_REQUESTS - 1,
             resetTime |-> RATE_LIMIT_WINDOW_MS]] }

\* A request arrives at an endpoint: the gates, and for a request they
\* admit the handler's try block up to its first await of the job store.
Gated(endpoint, request, Core) ==
  LET g == Gate(rateLimitStore, now, call.env, request, endpoint) IN
    /\ call.seq < MaxGated
    /\ CountInBounds(rateLimitStore, request, now)
    /\ rateLimitStore' = g.store
    /\ call' = [call EXCEPT !.seq = @ + 1, !.endpoint = endpoint,
                            !.request = request, !.trace = g.trace,
                            !.resp = g.resp]
    /\ UNCHANGED now
    /\ IF g.resp = NoResp
         THEN Core
         ELSE UNCHANGED <<inMemoryJobs, handlerVars>>

GateNext ==
  \/ \E request \in GateRequests, appId \in AppIds, bundleHash \in BundleHashes :
       Gated("start", request, PublishStartCore(appId, bundleHash))
  \/ \E request \in GateRequests, u \in UploadReqs, publishId \in JobIds :
       Gated("upload", request, UploadGetJobCore(u, publishId))
  \/ \E request \in GateRequests, c \in CancelReqs, publishId \in JobIds :
       Gated("cancel", request, CancelGetJobCore(c, publishId))
  \/ \E request \in GateRequests, s \in StatusReqs, publishId \in JobIds :
       Gated("status", request, StatusGetJobCore(s, publishId))
  \/ \E request \in GateRequests, c \in CompleteReqs, publishId \in JobIds :
       Gated("complete", request, CompleteGetJobCore(c, publishId))
  \/ \E u \in UploadReqs : UploadCheck(u)
  \/ \E u \in UploadReqs, body \in UploadBodies : UploadBody(u, body)
  \/ \E u \in UploadReqs, extracted \in BOOLEAN : UploadExtract(u, extracted)
  \/ \E u \in UploadReqs, outcome \in CreateOutcomes : UploadCreate(u, outcome)
  \/ \E u \in UploadReqs, project \in ProjectOutcomes : UploadProject(u, project)
  \/ \E c \in CancelReqs : CancelCheck(c)
  \/ \E c \in CancelReqs, outcome \in CancelOutcomes : CancelRemote(c, outcome)
  \/ \E s \in StatusReqs : StatusCheck(s)
  \/ \E s \in StatusReqs :
       /\ statusReqs[s].pc = "fetch"
       /\ \E data \in ProviderData(statusReqs[s].job.vercel_deployment_id) :
            StatusFetch(s, data)
  \/ \E s \in StatusReqs : StatusFetchError(s)
  \/ \E c \in CompleteReqs : CompleteRespond(c)

GateSpec == GateInit /\ [][GateNext]_vars

(* ------------------------------ claims --------------------------------- *)

Jobs == DOMAIN inMemoryJobs

\* The status changes the state machine allows.
AllowedTransition(from, to) ==
  \/ from = "queued" /\ to = "uploading"
  \/ from = "uploading" /\ to = "packaging"
  \/ from = "packaging" /\ to = "building"
  \/ from = "packaging" /\ to = "ready" /\ ~isVercelConfigured
  \/ from = "building" /\ to = "deploying"
  \/ from = "deploying" /\ to \in {"ready", "failed", "cancelled"}
  \/ ~isTerminalStatus(from) /\ to \in {"cancelled", "failed"}

\* C1: every change of a job's stored status is a transition of the state
\* machine (queued->uploading, uploading->packaging, packaging->building or
\* packaging->ready in degraded mode, building->deploying,
\* deploying->ready|failed|cancelled, non-terminal->cancelled, or a failure
\* transition to failed).
C1_StatusChangesFollowStateMachine ==
  [][\A id \in Jobs :
       inMemoryJobs'[id].status # inMemoryJobs[id].status =>
         AllowedTransition(inMemoryJobs[id].status, inMemoryJobs'[id].status)]_vars

\* C2: once a job's stored status is ready, failed or cancelled, it never
\* holds a different status afterwards.
C2_TerminalStatusIsFinal ==
  [][\A id \in Jobs :
       isTerminalStatus(inMemoryJobs[id].status) =>
         inMemoryJobs'[id].status = inMemoryJobs[id].status]_vars

\* C3: updateJobStatus(id, s), for any status s, on a job whose stored
\* status is terminal leaves the stored status unchanged.
C3_UpdateKeepsTerminalStatus ==
  \A id \in Jobs : \A s \in PublishStatus :
    isTerminalStatus(inMemoryJobs[id].status) =>
      updateJobStatus(inMemoryJobs, id, s, NoExtra)[id].status
        = inMemoryJobs[id].status

\* A step of poller u: a turn of its loop or its timeout write.
PollerStep(u) == pollers[u].pc = "poll" /\ pollers'[u] # pollers[u]

\* C4: a poller iteration or the poller's timeout write on a job whose
\* stored status is already terminal leaves status, url and error unchanged.
C4_PollerLeavesTerminalJobs ==
  [][\A u \in UploadReqs :
       LET id == pollers[u].publishId IN
         (PollerStep(u) /\ isTerminalStatus(inMemoryJobs[id].status)) =>
           /\ inMemoryJobs'[id].status = inMemoryJobs[id].status
           /\ inMemoryJobs'[id].url = inMemoryJobs[id].url
           /\ inMemoryJobs'[id].error = inMemoryJobs[id].error]_vars

\* C5: url is set if and only if status is ready.
C5_UrlIffReady ==
  \A id \in Jobs :
    IsSet(inMemoryJobs[id].url) <=> inMemoryJobs[id].status = "ready"

\* C6: status failed implies error is set, and error set implies status is
\* failed or cancelled.
C6_ErrorIffFailed ==
  \A id \in Jobs :
    /\ inMemoryJobs[id].status = "failed" => IsSet(inMemoryJobs[id].error)
    /\ IsSet(inMemoryJobs[id].error) =>
         inMemoryJobs[id].status \in {"failed", "cancelled"}

\* The deployments the provider has created for job id.
DeploymentsOf(deps, id) == {n \in DOMAIN deps : deps[n] = id}

\* C7: once a job's vercel_deployment_id and vercel_project_id are set they
\* never change, and at most one remote deployment is created for the job.
C7_OneDeploymentPerJob ==
  [][\A id \in Jobs :
       /\ IsSet(inMemoryJobs[id].vercel_deployment_id) =>
            inMemoryJobs'[id].vercel_deployment_id
              = inMemoryJobs[id].vercel_deployment_id
       /\ IsSet(inMemoryJobs[id].vercel_project_id) =>
            inMemoryJobs'[id].vercel_project_id
              = inMemoryJobs[id].vercel_project_id
       /\ Cardinality(DeploymentsOf(deployments', id)) <= 1]_vars

\* The position of a status in the forward order
\* queued < packaging < uploading < building < deploying < ready.
ForwardRank(status) ==
  CASE status = "queued" -> 1
    [] status = "packaging" -> 2
    [] status = "uploading" -> 3
    [] status = "building" -> 4
    [] status = "deploying" -> 5
    [] status = "ready" -> 6
    [] OTHER -> 0

\* C8: a job's stored status never moves to an earlier position of the
\* forward order, except by a write of cancelled or failed.
C8_StatusNeverRegresses ==
  [][\A id \in Jobs :
       LET from == inMemoryJobs[id].status
           to == inMemoryJobs'[id].status
       IN (ForwardRank(from) > 0 /\ ForwardRank(to) > 0) =>
            ForwardRank(to) >= ForwardRank(from)]_vars

\* C9: an upload request that arrives when the job's stored status is not
\* queued reads that status, answers 400, and changes neither the job store,
\* nor the provider's deployments, nor the pollers.
C9_UploadRefusedUnlessQueued ==
  [][\A u \in UploadReqs :
       /\ (uploads[u].pc = "idle" /\ uploads'[u].pc = "check") =>
            /\ uploads'[u].job.status
                 = inMemoryJobs[uploads'[u].publishId].status
            /\ inMemoryJobs' = inMemoryJobs
       /\ (/\ uploads[u].pc = "check"
           /\ uploads[u].job.status # "queued"
           /\ uploads'[u] # uploads[u]) =>
            /\ uploads'[u].pc = "done"
            /\ uploads'[u].resp.code = 400
            /\ inMemoryJobs' = inMemoryJobs
            /\ deployments' = deployments
            /\ pollers' = pollers]_vars

\* C9 witness: an upload to a job that has left queued has been refused.
C9_Witness ==
  \E u \in UploadReqs, id \in Jobs :
    /\ uploads[u].pc = "done"
    /\ uploads[u].publishId = id
    /\ uploads[u].resp = [code |-> 400,
                          error |-> <<"Cannot upload to job in status">>]
    /\ inMemoryJobs[id].status # "queued"

\* C10: a cancel request that read a non-terminal job ends by writing
\* cancelled and answering success, whatever the remote cancel did.
C10_CancelAlwaysCancelsLocally ==
  [][\A c \in CancelReqs :
       (/\ cancels[c].pc \in {"check", "remote"}
        /\ ~isTerminalStatus(cancels[c].job.status)
        /\ cancels'[c].pc = "done") =>
         /\ inMemoryJobs'[cancels[c].publishId].status = "cancelled"
         /\ cancels'[c].resp = [code |-> 200, success |-> TRUE,
                                 status |-> "cancelled"]]_vars

\* C10 witness: the remote cancel threw, and the job is cancelled and the
\* request answered success.
C10_Witness ==
  \E c \in CancelReqs :
    /\ cancels[c].pc = "done"
    /\ cancels[c].remote = "throws"
    /\ cancels[c].resp.code = 200 /\ cancels[c].resp.success
    /\ inMemoryJobs[cancels[c].publishId].status = "cancelled"

\* C11: a cancel request that arrives when the job's stored status is
\* ready, failed or cancelled reads that status, answers success=false with
\* it, changes nothing in the job store and issues no remote cancel call.
C11_CancelOfTerminalJobRefused ==
  [][\A c \in CancelReqs :
       /\ (cancels[c].pc = "idle" /\ cancels'[c].pc = "check") =>
            /\ cancels'[c].job.status
                 = inMemoryJobs[cancels'[c].publishId].status
            /\ inMemoryJobs' = inMemoryJobs
       /\ (/\ cancels[c].pc = "check"
           /\ cancels[c].job.status \in {"ready", "failed", "cancelled"}
           /\ cancels'[c] # cancels[c]) =>
            /\ cancels'[c].pc = "done"
            /\ cancels'[c].remote = "none"
            /\ cancels'[c].resp = [code |-> 200, success |-> FALSE,
                                    status |-> cancels[c].job.status]
            /\ inMemoryJobs' = inMemoryJobs]_vars

\* C11 witness: a cancel of a ready job with a deployment has been refused,
\* and the job is still ready.
C11_Witness ==
  \E c \in CancelReqs :
    /\ cancels[c].pc = "done"
    /\ cancels[c].remote = "none"
    /\ cancels[c].resp = [code |-> 200, success |-> FALSE, status |-> "ready"]
    /\ inMemoryJobs[cancels[c].publishId].status = "ready"
    /\ IsSet(inMemoryJobs[cancels[c].publishId].vercel_deployment_id)

\* C12: when the deployment provider is not configured, no upload enters
\* deployBundle, no deployment is created, no deployment id is stored and no
\* poller runs; an upload of a valid bundle (a bundle within the size limit
\* that extracts) to a job read as queued ends by writing ready with the url
\* https://mock-<the job's app id>.vercel.app and answers 200.
C12_MockDeploymentWhenNotConfigured ==
  [][~VERCEL_TOKEN =>
       /\ deployments' = <<>>
       /\ \A u \in UploadReqs : pollers'[u].pc = "off"
       /\ \A id \in DOMAIN inMemoryJobs' :
            ~IsSet(inMemoryJobs'[id].vercel_deployment_id)
       /\ \A u \in UploadReqs :
            /\ uploads'[u].pc \notin {"create", "project"}
            /\ (/\ uploads[u].pc = "extract"
                /\ uploads'[u].pc = "done"
                /\ uploads'[u].resp.code # 500) =>
                 LET id == uploads[u].publishId IN
                   /\ uploads'[u].resp.code = 200
                   /\ inMemoryJobs'[id].status = "ready"
                   /\ inMemoryJobs'[id].url
                        = <<"https://mock-", inMemoryJobs[id].app_id,
                            ".vercel.app">>]_vars

\* C12 witness: without a provider, an upload has answered 200 and the job
\* is ready with the synthetic url and no deployment id.
C12_Witness ==
  \E u \in UploadReqs :
    /\ ~VERCEL_TOKEN
    /\ uploads[u].pc = "done"
    /\ uploads[u].resp.code = 200
    /\ LET job == inMemoryJobs[uploads[u].publishId] IN
         /\ job.status = "ready"
         /\ job.url = <<"https://mock-", job.app_id, ".vercel.app">>
         /\ job.vercel_deployment_id = NULL
    /\ deployments = <<>>
    /\ pollers[u].pc = "off"

\* C13: when createDeployment fails during an upload, no deployment is
\* created, the job's stored status becomes failed with error equal to the
\* message of the failure, the upload answers 500 with that message, and no
\* poller is started; the same holds when the project lookup that follows
\* in deployBundle fails.
C13_CreateFailureFailsJob ==
  [][\A u \in UploadReqs :
       LET id == uploads[u].publishId IN
         /\ (/\ uploads[u].pc = "create"
             /\ uploads'[u] # uploads[u]
             /\ deployments' = deployments) =>
              /\ inMemoryJobs'[id].status = "failed"
              /\ inMemoryJobs'[id].error \in CreateErrors
              /\ uploads'[u].pc = "done"
              /\ uploads'[u].resp.code = 500
              /\ uploads'[u].resp.message = inMemoryJobs'[id].error
              /\ pollers' = pollers
              /\ pollers[u].pc = "off"
         /\ (/\ uploads[u].pc = "project"
             /\ uploads'[u].pc = "done"
             /\ uploads'[u].resp.code = 500) =>
              /\ inMemoryJobs'[id].status = "failed"
              /\ inMemoryJobs'[id].error = uploads'[u].resp.message
              /\ pollers' = pollers
              /\ pollers[u].pc = "off"]_vars

\* C13 witness: an upload whose createDeployment failed has answered 500,
\* and the job is failed with the failure's message and has no poller.
C13_Witness ==
  \E u \in UploadReqs :
    /\ uploads[u].pc = "done"
    /\ uploads[u].publishId \in Jobs
    /\ uploads[u].resp.code = 500
    /\ "message" \in DOMAIN uploads[u].resp
    /\ uploads[u].resp.message \in CreateErrors
    /\ pollers[u].pc = "off"
    /\ deployments = <<>>
    /\ LET job == inMemoryJobs[uploads[u].publishId] IN
         /\ job.status = "failed"
         /\ job.error = uploads[u].resp.message

\* The status change and the loop control the mapping table gives for a
\* provider state; NULL stands for no write.
MappingTable(readyState) ==
  CASE readyState = "READY" -> [status |-> <<"ready">>, stop |-> TRUE]
    [] readyState = "ERROR" -> [status |-> <<"failed">>, stop |-> TRUE]
    [] readyState = "CANCELED" -> [status |-> <<"cancelled">>, stop |-> TRUE]
    [] readyState = "BUILDING" -> [status |-> <<"building">>, stop |-> FALSE]
    [] readyState = "QUEUED" -> [status |-> NULL, stop |-> FALSE]

\* The job the mapping table asks for after a poll that observed `status`.
MappedJob(job, status) ==
  LET row == MappingTable(status.readyState) IN
    IF row.status = NULL THEN job
    ELSE LET j == [job EXCEPT !.status = row.status[1]] IN
      CASE status.readyState = "READY" ->
             [j EXCEPT !.url = IF IsSet(status.url) THEN status.url ELSE UNDEFINED]
        [] status.readyState = "ERROR" ->
             [j EXCEPT !.error = IF IsSet(status.errorMessage)
                                   THEN status.errorMessage
                                   ELSE <<"Deployment failed">>]
        [] OTHER -> j

\* C14: on a poll, for every provider state the poller may observe, what it
\* writes is exactly what the mapping table gives (READY: ready with the
\* provider url; ERROR: failed with the provider's error message, or
\* "Deployment failed" when the provider gives none; CANCELED: cancelled;
\* BUILDING: building; QUEUED: nothing written) and it stops on READY,
\* ERROR and CANCELED and goes on otherwise; and every turn of the poller's
\* loop that does not fail is such a poll of one provider state.
C14_PollerFollowsMappingTable ==
  [][\A u \in UploadReqs :
       (/\ pollers[u].pc = "poll"
        /\ pollers[u].elapsed < MaxPolls
        /\ pollers'[u] # pollers[u]
        /\ pollers'[u].last = "answered") =>
         LET id == pollers[u].publishId IN
           /\ \A data \in ProviderData(pollers[u].deploymentId) :
                LET status == getDeploymentStatus(data) IN
                  /\ PollWrite(inMemoryJobs, id, status)
                       = [inMemoryJobs EXCEPT ![id] = MappedJob(@, status)]
                  /\ PollReturns(status.readyState)
                       = MappingTable(status.readyState).stop
           /\ \E data \in ProviderData(pollers[u].deploymentId) :
                LET status == getDeploymentStatus(data) IN
                  /\ inMemoryJobs' =
                       [inMemoryJobs EXCEPT ![id] = MappedJob(@, status)]
                  /\ (pollers'[u].pc = "done")
                       = MappingTable(status.readyState).stop
                  /\ (pollers'[u].pc = "poll")
                       = ~MappingTable(status.readyState).stop]_vars

\* C14 witness: a poller has observed ERROR with the message "build failed"
\* and stopped, and the job is failed with that message.
C14_Witness ==
  \E u \in UploadReqs :
    /\ pollers[u].pc = "done"
    /\ pollers[u].last = "answered"
    /\ inMemoryJobs[pollers[u].publishId].status = "failed"
    /\ inMemoryJobs[pollers[u].publishId].error = <<"build failed">>

\* C15: when a poller's time budget has elapsed without it having seen a
\* terminal provider state, its next step writes status failed with the
\* error "Deployment timed out after 5 minutes" and ends the poller.
C15_TimeoutFailsJob ==
  [][\A u \in UploadReqs :
       (/\ pollers[u].pc = "poll"
        /\ pollers[u].elapsed >= MaxPolls
        /\ pollers'[u] # pollers[u]) =>
         LET id == pollers[u].publishId IN
           /\ pollers'[u].pc = "done"
           /\ inMemoryJobs'[id].status = "failed"
           /\ inMemoryJobs'[id].error
                = <<"Deployment timed out after 5 minutes">>]_vars

\* C15 witness: a poller has used up its budget and stopped, and the job is
\* failed with the timeout error.
C15_Witness ==
  \E u \in UploadReqs :
    /\ pollers[u].pc = "done"
    /\ pollers[u].last = "timed out"
    /\ inMemoryJobs[pollers[u].publishId].status = "failed"
    /\ inMemoryJobs[pollers[u].publishId].error
         = <<"Deployment timed out after 5 minutes">>

\* C16: a poll that fails, by the provider call or by the store write
\* throwing, writes nothing and leaves the poller in its loop; a poller
\* stops only in a step that writes the terminal status of a terminal
\* provider state it was answered, or when its time budget has elapsed.
C16_PollFailureKeepsPolling ==
  [][\A u \in UploadReqs :
       (pollers[u].pc = "poll" /\ pollers'[u] # pollers[u]) =>
         LET id == pollers[u].publishId IN
           /\ (/\ pollers[u].elapsed < MaxPolls
               /\ pollers'[u].last \in {"fetch threw", "write threw"}) =>
                /\ pollers'[u].pc = "poll"
                /\ inMemoryJobs' = inMemoryJobs
           /\ pollers'[u].pc # "poll" =>
                \/ pollers[u].elapsed >= MaxPolls
                \/ /\ pollers'[u].last = "answered"
                   /\ isTerminalStatus(inMemoryJobs'[id].status)
                   /\ \E data \in ProviderData(pollers[u].deploymentId) :
                        /\ data.readyState \in {"READY", "ERROR", "CANCELED"}
                        /\ inMemoryJobs' =
                             [inMemoryJobs EXCEPT ![id] =
                                MappedJob(@, getDeploymentStatus(data))]]_vars

\* C16 witness: a poll has failed by the store write throwing, nothing was
\* written, and the poller is still in its loop.
C16_Witness ==
  \E u \in UploadReqs :
    /\ pollers[u].pc = "poll"
    /\ pollers[u].last = "write threw"
    /\ pollers[u].elapsed >= 1
    /\ inMemoryJobs[pollers[u].publishId].status = "building"

\* C17: with the poller kept scheduled and time advancing, every job for
\* which a remote deployment has been created eventually has the stored
\* status ready, failed or cancelled.
C17_DeployedJobBecomesTerminal ==
  \A id \in JobIds :
    <>(DeploymentsOf(deployments, id) # {})
      => <>(/\ DeploymentsOf(deployments, id) # {}
            /\ isTerminalStatus(inMemoryJobs[id].status))

\* C17 witness: a deployment exists for a job that is building with its
\* poller in the loop.
C17_Witness ==
  \E u \in UploadReqs :
    /\ pollers[u].pc = "poll"
    /\ DeploymentsOf(deployments, pollers[u].publishId) # {}
    /\ inMemoryJobs[pollers[u].publishId].status = "building"

\* C18: when an upload request ends with an error response, the job's
\* stored status is the status the request found or failed, never a
\* non-terminal status the request itself wrote.
C18_UploadErrorLeavesNoIntermediateStatus ==
  [][\A u \in UploadReqs :
       (/\ uploads[u].pc \notin {"idle", "done"}
        /\ uploads'[u].pc = "done"
        /\ uploads'[u].resp.code >= 400) =>
         inMemoryJobs'[uploads[u].publishId].status
           \in {"failed", uploads[u].job.status}]_vars

\* The size-validation message for a payload of n bytes.
TooLarge(n) ==
  <<"Bundle too large: ", n, " bytes (max ", 50 * 1024 * 1024, " bytes)">>

\* C19: an upload whose payload is longer than 50*1024*1024 bytes never
\* reaches extraction or deployment: the step that has read the payload
\* ends the request with 400, and the job's stored status is failed with
\* error equal to the size-validation message for that length.
C19_OversizeUploadFailsJob ==
  [][\A u \in UploadReqs :
       /\ uploads'[u].pc = "extract" =>
            uploads'[u].bundleLength[1] <= 50 * 1024 * 1024
       /\ uploads'[u].pc \in {"create", "project"} =>
            uploads[u].pc \in {"extract", "create", "project"}
       /\ (/\ uploads[u].pc = "body"
           /\ uploads'[u].pc = "done"
           /\ Len(uploads'[u].resp.error) = 5) =>
            LET n == uploads'[u].resp.error[2]
                id == uploads[u].publishId
            IN /\ n > 50 * 1024 * 1024
               /\ uploads'[u].resp = [code |-> 400, error |-> TooLarge(n)]
               /\ inMemoryJobs'[id].status = "failed"
               /\ inMemoryJobs'[id].error = TooLarge(n)
               /\ deployments' = deployments
               /\ pollers' = pollers]_vars

\* C19 witness: an upload of 50*1024*1024 + 1 bytes has answered 400, and
\* the job is failed with the size-validation message.
C19_Witness ==
  \E u \in UploadReqs :
    /\ uploads[u].pc = "done"
    /\ uploads[u].resp = [code |-> 400, error |-> TooLarge(50 * 1024 * 1024 + 1)]
    /\ inMemoryJobs[uploads[u].publishId].status = "failed"
    /\ inMemoryJobs[uploads[u].publishId].error = TooLarge(50 * 1024 * 1024 + 1)
    /\ deployments = <<>>

\* C20: validateBundleSize(x) is valid for every x from 0 up to and
\* including 50*1024*1024, and for every x above it is invalid with an error
\* that mentions "too large".
C20_ValidateBundleSizeBoundary ==
  bundleSizeCall # NULL =>
    (bundleSizeCall.result # NULL =>
       LET x == bundleSizeCall.size
           r == bundleSizeCall.result
       IN IF x <= 50 * 1024 * 1024
            THEN r.valid
            ELSE /\ ~r.valid
                 /\ IsSet(r.error)
                 /\ r.error[1] = "Bundle too large: ")

\* C20 witness: validateBundleSize has returned valid for exactly
\* 50*1024*1024.
C20_Witness ==
  /\ bundleSizeCall # NULL
  /\ bundleSizeCall.size = 50 * 1024 * 1024
  /\ bundleSizeCall.result # NULL
  /\ bundleSizeCall.result.valid

\* What of a body step shows in the job and in the request: the status
\* written, the fields written with it, and the response.
BodyOutcome(step) ==
  [write |-> step.write, status |-> step.status, extra |-> step.extra,
   resp |-> step.resp]

\* C21: the status an upload writes for the body it has read, and the
\* response it ends with, are the ones the handler gives for the same body
\* whatever hash the job declares: replacing the declared hash by any other
\* one changes neither the status write nor the outcome.
C21_DeclaredHashDoesNotSteerUpload ==
  [][\A u \in UploadReqs :
       (uploads[u].pc = "body" /\ uploads'[u].pc # "body") =>
         \E body \in HashBodies :
           \A declared \in DeclaredHashes :
             LET id == uploads[u].publishId
                 job == [uploads[u].job EXCEPT !.bundle_hash = <<declared>>]
                 out == BodyOutcome(UploadBodyStep(job, body))
             IN /\ inMemoryJobs' =
                     IF out.write
                       THEN updateJobStatus(inMemoryJobs, id, out.status,
                                            out.extra)
                       ELSE inMemoryJobs
                /\ IF out.resp = NoResp
                     THEN /\ uploads'[u].pc = "extract"
                          /\ uploads'[u].actualHash = <<body.hash>>
                          /\ uploads'[u].bundleLength = <<body.size>>
                     ELSE /\ uploads'[u].pc = "done"
                          /\ uploads'[u].resp = out.resp]_vars

\* C21 witness: an upload whose payload hash is not the hash its job
\* declares has been answered 200, and the job is building or ready.
C21_Witness ==
  \E u \in UploadReqs :
    /\ uploads[u].pc = "done"
    /\ uploads[u].resp.code = 200
    /\ uploads[u].publishId \in Jobs
    /\ LET job == inMemoryJobs[uploads[u].publishId] IN
         /\ job.bundle_hash \in {<<"abc">>, <<"xyz">>}
         /\ IsSet(uploads[u].actualHash)
         /\ job.bundle_hash # uploads[u].actualHash
         /\ job.status \in {"building", "ready"}

\* A store call of the given kind returns in this step.
StoreCallReturns(op) == call' # call /\ call'.op = op

\* C22: createPublishJob, for its parameters, stores and returns a new job
\* with status queued, url null, error null and no deployment id, under an
\* id that no job had, and every job that was there is as it was.
C22_CreateStoresFreshQueuedJob ==
  [][StoreCallReturns("create") =>
       LET id == call'.id
           job == call'.result
           params == call'.args
       IN /\ id \notin DOMAIN inMemoryJobs
          /\ DOMAIN inMemoryJobs' = DOMAIN inMemoryJobs \cup {id}
          /\ inMemoryJobs'[id] = job
          /\ job.id = id
          /\ job.status = "queued"
          /\ job.url = NULL
          /\ job.error = NULL
          /\ job.vercel_deployment_id = NULL
          /\ job.app_id = params.appId
          /\ job.bundle_hash = <<params.bundleHash>>
          /\ job.bundle_size = params.bundleSize
          /\ \A k \in DOMAIN inMemoryJobs : inMemoryJobs'[k] = inMemoryJobs[k]]_vars

\* C22 witness: a second job has just been created while the first one,
\* updated before, is no longer queued.
C22_Witness ==
  /\ call # NULL
  /\ call.op = "create"
  /\ call.id = 2
  /\ DOMAIN inMemoryJobs = {1, 2}
  /\ inMemoryJobs[2] = call.result
  /\ inMemoryJobs[2].status = "queued"
  /\ inMemoryJobs[1].status = "building"

\* C23: updatePublishJob on an id that the in-memory store does not hold
\* returns null and leaves the store as it was: no job is created and no
\* job is modified.
C23_UpdateOfUnknownIdIsNoOp ==
  [][(StoreCallReturns("update") /\ call'.id \notin DOMAIN inMemoryJobs) =>
       /\ call'.result = NULL
       /\ inMemoryJobs' = inMemoryJobs]_vars

\* C23 witness: an update of an id the store does not hold has returned
\* null while the store holds another job.
C23_Witness ==
  /\ call # NULL
  /\ call.op = "update"
  /\ call.result = NULL
  /\ call.id \notin DOMAIN inMemoryJobs
  /\ DOMAIN inMemoryJobs # {}

ProgressPath ==
  <<"queued", "packaging", "uploading", "building", "deploying", "ready">>

\* The progress the table gives along the forward path.
ProgressValues == <<5, 15, 35, 60, 85, 100>>

\* C25: getStatusProgress is strictly increasing along queued, packaging,
\* uploading, building, deploying, ready, with the values 5, 15, 35, 60, 85,
\* 100, and is 0 for failed and for cancelled.
C25_ProgressIncreasesAlongForwardPath ==
  (call # NULL /\ call.op = "progress" /\ call.result # NULL) =>
    LET p == call.result[1]
        q == call.result[2]
    IN /\ \A i, j \in 1..Len(ProgressPath) :
            (/\ call.first = ProgressPath[i]
             /\ call.second = ProgressPath[j]
             /\ i < j) =>
              /\ p < q
              /\ p = ProgressValues[i]
              /\ q = ProgressValues[j]
       /\ call.first \in {"failed", "cancelled"} => p = 0
       /\ call.second \in {"failed", "cancelled"} => q = 0

\* C25 witness: getStatusProgress has returned 15 for packaging and 35 for
\* uploading.
C25_Witness ==
  /\ call # NULL
  /\ call.op = "progress"
  /\ call.first = "packaging"
  /\ call.second = "uploading"
  /\ call.result = <<15, 35>>

\* A stored null or undefined, as a response shows it: the field is absent.
Reported(v) == IF IsSet(v) THEN v ELSE UNDEFINED

\* C26: for every provider response and every job in building or deploying
\* with a deployment id, the status, url and error the status endpoint
\* reports after its refresh are the status, url and error of the job the
\* poller would store for that response.
C26_StatusRefreshAgreesWithPoller ==
  (call # NULL /\ call.op = "refresh" /\ call.result # NULL) =>
    LET reported == call.result.reported
        stored == call.result.stored
    IN /\ reported.status = stored.status
       /\ reported.url = Reported(stored.url)
       /\ reported.error = Reported(stored.error)

\* C26 witness: for a deploying job and a READY answer with a url, the
\* status endpoint reports ready with that url and the poller stores the
\* same.
C26_Witness ==
  /\ call # NULL
  /\ call.op = "refresh"
  /\ call.result # NULL
  /\ call.job.status = "deploying"
  /\ call.data.readyState = "READY"
  /\ call.result.reported.status = "ready"
  /\ call.result.stored.status = "ready"
  /\ call.result.reported.url = <<"https://", "dpl_1.vercel.app">>
  /\ call.result.stored.url = <<"https://", "dpl_1.vercel.app">>

\* The files at hand hold an entry whose path is the root-level index.html.
HasRootIndex(files) == \E i \in 1..Len(files) : files[i].file = <<"index.html">>

\* C27: the list ensureDefaultFiles returns holds an entry whose path is
\* exactly the root-level index.html; when the input holds none, the result
\* is the input with exactly one entry appended.
C27_ResultHoldsRootIndexHtml ==
  (call # NULL /\ call.op = "bundle" /\ call.deployFiles # NULL) =>
    LET input == call.files[1]
        output == call.deployFiles[1]
    IN /\ HasRootIndex(output)
       /\ ~HasRootIndex(input) =>
            /\ Len(output) = Len(input) + 1
            /\ SubSeq(output, 1, Len(input)) = input
            /\ output[Len(output)].file = <<"index.html">>

\* The entries extract is to keep: no directory, no hidden or OS-junk
\* name, content no longer than the per-file limit.
Kept(entry) ==
  /\ ~entry.dir
  /\ basename(entry.path) \notin {".DS_Store", "Thumbs.db", "desktop.ini"}
  /\ entry.length <= 10 * 1024 * 1024

\* The first n elements of a sequence.
Take(s, n) == SubSeq(s, 1, IF Len(s) < n THEN Len(s) ELSE n)

\* C28: extract returns, in archive order, exactly the entries that are
\* no directories, no hidden or OS-junk files and not over the per-file
\* size limit, cut off after the first MaxFiles of them; the result never
\* holds more than MaxFiles files.
C28_ExtractKeepsAcceptedEntriesInOrder ==
  (call # NULL /\ call.op = "bundle" /\ call.files # NULL) =>
    LET files == call.files[1]
        kept == Take(SelectSeq(call.archive, Kept), MaxFiles)
    IN /\ Len(files) <= MaxFiles
       /\ Len(files) = Len(kept)
       /\ \A i \in 1..Len(files) :
            /\ files[i].file = kept[i].path
            /\ files[i].data = <<"content", kept[i].length>>

\* checkRateLimit returns for client `ip` in this step: the client's entry
\* is new or has changed.
RateChecked(ip) ==
  /\ ip \in DOMAIN rateLimitStore'
  /\ ip \in DOMAIN rateLimitStore => rateLimitStore'[ip] # rateLimitStore[ip]

\* The client's window is open: it has an entry whose reset time has not
\* passed.
WindowOpen(ip) ==
  /\ ip \in DOMAIN rateLimitStore
  /\ rateLimitStore[ip].resetTime >= now

\* C29: for each client identity, the request that opens a window is
\* counted as the first one, every request up to the window's reset time
\* is counted as the next one of that window, a request is admitted when it
\* is one of the first 60 of its window and answered 429 otherwise, and a
\* request changes no other identity's entry.
C29_FirstSixtyPerWindowAdmitted ==
  [][\A ip \in {"1.2.3.4", "unknown"} :
       RateChecked(ip) =>
         LET n == rateLimitStore'[ip].count IN
           /\ call'.ip = ip
           /\ IF WindowOpen(ip)
                THEN /\ n = rateLimitStore[ip].count + 1
                     /\ rateLimitStore'[ip].resetTime =
                          rateLimitStore[ip].resetTime
                ELSE /\ n = 1
                     /\ rateLimitStore'[ip].resetTime = now + 60 * 1000
           /\ IF n <= 60 THEN call'.resp = NoResp ELSE call'.resp.code = 429
           /\ \A other \in DOMAIN rateLimitStore \ {ip} :
                /\ other \in DOMAIN rateLimitStore'
                /\ rateLimitStore'[other] = rateLimitStore[other]]_vars

\* C29 witness: a client's 61st request of a window has been answered 429
\* while another client, two requests into its own window, is admitted.
C29_Witness ==
  /\ call # NULL
  /\ call.op = "checkRateLimit"
  /\ call.ip = "1.2.3.4"
  /\ call.resp.code = 429
  /\ DOMAIN rateLimitStore = {"1.2.3.4", "unknown"}
  /\ rateLimitStore["1.2.3.4"].count = 61
  /\ rateLimitStore["unknown"].count = 2

\* C30: a request of a client whose window has expired is admitted and
\* opens a new window with count 1 that ends one window's length from now,
\* however many requests the expired window had counted.
C30_ExpiredWindowIsReplaced ==
  [][\A ip \in {"1.2.3.4", "unknown"} :
       (/\ RateChecked(ip)
        /\ ip \in DOMAIN rateLimitStore
        /\ rateLimitStore[ip].resetTime < now) =>
         /\ call'.ip = ip
         /\ call'.found = rateLimitStore[ip]
         /\ call'.resp = NoResp
         /\ rateLimitStore'[ip] = [count |-> 1, resetTime |-> now + 60 * 1000]]_vars

\* C30 witness: a client whose expired window had counted 62 requests, two
\* of them turned down, has been admitted, and its entry counts 1.
C30_Witness ==
  /\ call # NULL
  /\ call.op = "checkRateLimit"
  /\ call.found # NULL
  /\ call.found.count = 62
  /\ call.found.resetTime < now
  /\ call.resp = NoResp
  /\ call.ip \in DOMAIN rateLimitStore
  /\ rateLimitStore[call.ip] = [count |-> 1, resetTime |-> now + 60 * 1000]

\* The value of ABBA_DEVICE_TOKEN is unset, empty or blank.
ServerTokenUnset(env) ==
  env = NULL \/ \A i \in 1..Len(Chars(env)) : Chars(env)[i] = " "

\* C31: validateDeviceTokenDetailed returns not_configured whenever the
\* server token is unset, empty or whitespace (whatever the presented
\* token), otherwise missing when the presented token is null or empty,
\* otherwise valid exactly when the presented token equals the server token
\* (the configured value without the blanks around it), and invalid in
\* every remaining case.
C31_ValidateDeviceTokenDetailed ==
  (call # NULL /\ call.op = "auth" /\ call.result # NULL) =>
    call.result =
      IF ServerTokenUnset(call.env)
        THEN [valid |-> FALSE, reason |-> "not_configured"]
        ELSE IF call.token = NULL \/ call.token = Str(<<>>)
          THEN [valid |-> FALSE, reason |-> "missing"]
          ELSE IF call.token = trim(call.env)
            THEN [valid |-> TRUE]
            ELSE [valid |-> FALSE, reason |-> "invalid"]

\* A request has just been through the gates of an endpoint.
GateStep == call' # call /\ call'.op = "gate"

\* The calls of a handler that read or write the job store.
StoreCalls == {"createPublishJob", "getPublishJob"}

\* C32: for every publish endpoint (start, upload, status, complete,
\* cancel), a request rejected by the rate limiter or by the auth gate
\* causes no read or write of the job store and no provider call (the job
\* store, the provider's deployments and every request and poller in
\* flight are as before, and no store call is among the calls made); the
\* rate limiter is consulted before the auth gate: it is the first call of
\* every request and counts the request whatever the token, and a request
\* over the limit is answered 429 whatever the token.
C32_RejectedRequestTouchesNothing ==
  [][GateStep =>
       LET limit == checkRateLimit(rateLimitStore, call'.request, now) IN
         /\ call'.trace[1] = "checkRateLimit"
         /\ rateLimitStore' = limit.store
         /\ limit.resp # NoResp => call'.resp = limit.resp
         /\ call'.resp # NoResp =>
              /\ inMemoryJobs' = inMemoryJobs
              /\ UNCHANGED handlerVars
              /\ \A i \in 1..Len(call'.trace) : call'.trace[i] \notin StoreCalls
              /\ call'.trace \in { <<"checkRateLimit">>,
                                   <<"checkRateLimit", "requireAuth">> }]_vars

\* A request without the token is turned away at the cancel endpoint while
\* a job is deploying with an upload in flight.
C32_Witness ==
  /\ call.op = "gate"
  /\ call.endpoint = "cancel"
  /\ call.resp # NoResp
  /\ "code" \in DOMAIN call.resp
  /\ call.resp.code = 401
  /\ \E id \in Jobs : inMemoryJobs[id].status = "deploying"

\* Upload request u has passed the status check for job id: it is past
\* the check, and it has not ended on the refusal of the check.
PassedStatusCheck(u, id) ==
  /\ uploads[u].publishId = id
  /\ uploads[u].pc \notin {"idle", "check"}
  /\ ~(/\ uploads[u].pc = "done"
       /\ uploads[u].resp.code = 400
       /\ uploads[u].resp.error = <<"Cannot upload to job in status">>)

\* C33: when two or more upload requests for the same queued job run
\* concurrently, at most one of them passes the status check and proceeds;
\* every other one is rejected, so the pipeline (extraction, deployment
\* creation, poller start) runs at most once per job: no job has two
\* upload requests that passed the check, two deployments, or two pollers.
C33_OneUploadPassesStatusCheck ==
  \A id \in Jobs :
    /\ Cardinality({u \in UploadReqs : PassedStatusCheck(u, id)}) <= 1
    /\ Cardinality(DeploymentsOf(deployments, id)) <= 1
    /\ Cardinality({u \in UploadReqs :
                      pollers[u].pc # "off" /\ pollers[u].publishId = id}) <= 1

\* C34: in a cancel request for a non-terminal job, the remote cancel call
\* is issued before the local write of cancelled if and only if the job
\* record read by the request has a deployment id; with no deployment id,
\* no remote call is made.  After the check the request waits for the
\* provider with nothing written exactly when the job read has a
\* deployment id, and else writes cancelled at once and ends with no
\* remote call; the write of a request that waits comes in the step in
\* which the provider's call has settled.
C34_RemoteCancelIffDeploymentId ==
  [][\A c \in CancelReqs :
       LET r == cancels[c] IN
         /\ (/\ r.pc = "check"
             /\ ~isTerminalStatus(r.job.status)
             /\ cancels'[c] # r) =>
              IF IsSet(r.job.vercel_deployment_id)
                THEN /\ cancels'[c].pc = "remote"
                     /\ cancels'[c].remote = "none"
                     /\ inMemoryJobs' = inMemoryJobs
                ELSE /\ cancels'[c].pc = "done"
                     /\ cancels'[c].remote = "none"
                     /\ inMemoryJobs'[r.publishId].status = "cancelled"
         /\ (r.pc = "remote" /\ cancels'[c] # r) =>
              /\ IsSet(r.job.vercel_deployment_id)
              /\ cancels'[c].pc = "done"
              /\ cancels'[c].remote \in CancelOutcomes
              /\ inMemoryJobs'[r.publishId].status = "cancelled"]_vars

\* C34 witness: a cancel request that read a deployment id has made the
\* remote call and then written cancelled.
C34_Witness ==
  \E c \in CancelReqs :
    /\ cancels[c].pc = "done"
    /\ cancels[c].remote \in CancelOutcomes
    /\ cancels[c].resp = CancelledResp
    /\ inMemoryJobs[cancels[c].publishId].status = "cancelled"
    /\ IsSet(inMemoryJobs[cancels[c].publishId].vercel_deployment_id)

\* C35: every started poller eventually stops (returns), whatever sequence
\* of provider states and polling errors it observes, given that time
\* advances: it never loops forever.  A poller leaves its loop only by
\* returning, so from some point on no poller is in its loop.
C35_PollerStops ==
  <>[](\A u \in UploadReqs : pollers[u].pc # "poll")

\* C35 witness: a poller has stopped on its time budget after polls that
\* threw or were answered with a state that is not final.
C35_Witness ==
  \E u \in UploadReqs :
    /\ pollers[u].pc = "done"
    /\ pollers[u].last = "timed out"
    /\ inMemoryJobs[pollers[u].publishId].error
         = <<"Deployment timed out after 5 minutes">>

\* C36: a status query for a job whose stored status is terminal returns
\* the stored status, url and error and makes no provider call; the
\* provider is consulted only when the stored status is building or
\* deploying and a deployment id is stored.  The stored values are the
\* ones the request reads from the job store; a null url or error is an
\* absent field of the answer.
C36_StatusOfTerminalJobFromStore ==
  [][\A s \in StatusReqs :
       LET r == statusReqs[s] IN
         /\ (r.pc = "idle" /\ statusReqs'[s].pc = "check") =>
              statusReqs'[s].job =
                View(inMemoryJobs[statusReqs'[s].publishId], StatusFields)
         /\ (r.pc = "check" /\ statusReqs'[s] # r) =>
              /\ isTerminalStatus(r.job.status) =>
                   /\ statusReqs'[s].pc = "done"
                   /\ statusReqs'[s].resp.code = 200
                   /\ statusReqs'[s].resp.status = r.job.status
                   /\ statusReqs'[s].resp.url = Reported(r.job.url)
                   /\ statusReqs'[s].resp.error = Reported(r.job.error)
              /\ statusReqs'[s].pc = "fetch" <=>
                   /\ r.job.status \in {"building", "deploying"}
                   /\ IsSet(r.job.vercel_deployment_id)
         /\ statusReqs'[s].pc = "fetch" => r.pc \in {"check", "fetch"}]_vars

\* C36 witness: a status query has answered the stored failure of a job
\* that has a deployment id and whose poller timed out.
C36_Witness ==
  \E s \in StatusReqs :
    /\ statusReqs[s].pc = "done"
    /\ statusReqs[s].resp.code = 200
    /\ statusReqs[s].resp.status = "failed"
    /\ statusReqs[s].resp.error = <<"Deployment timed out after 5 minutes">>
    /\ IsSet(inMemoryJobs[statusReqs[s].publishId].vercel_deployment_id)

\* C37: the status endpoint and the complete endpoint never write to the
\* job store: for every job state and every provider response, including a
\* failing provider call, the store is the same after each step of such a
\* request as before it.
C37_StatusAndCompleteDoNotWrite ==
  [][(statusReqs' # statusReqs \/ completes' # completes) =>
       inMemoryJobs' = inMemoryJobs]_vars

\* C37 witness: a status query has answered ready from the provider while
\* the stored status is still building.
C37_Witness ==
  \E s \in StatusReqs :
    /\ statusReqs[s].pc = "done"
    /\ statusReqs[s].resp.code = 200
    /\ statusReqs[s].resp.status = "ready"
    /\ inMemoryJobs[statusReqs[s].publishId].status = "building"

\* A cancel request for job id has returned success.
CancelSucceeded(id) ==
  \E c \in CancelReqs :
    /\ cancels[c].pc = "done"
    /\ cancels[c].publishId = id
    /\ cancels[c].resp = CancelledResp

\* C38: once a cancel request for a job has returned success, no
\* create-deployment call is issued for that job afterwards, even when an
\* upload for the job was in flight at the time of the cancel: no upload
\* request for the job enters deployBundle's createDeployment call.
C38_NoDeploymentAfterCancel ==
  [][\A id \in Jobs :
       CancelSucceeded(id) =>
         \A u \in UploadReqs :
           (uploads'[u].publishId = id /\ uploads'[u].pc = "create") =>
             uploads[u].pc = "create"]_vars

\* C39: whenever a remote deployment has been successfully created for a
\* job, the job record comes to hold that deployment's id and a poller is
\* started for it: no step that can fail after the create call leaves a
\* remote deployment that the job record does not reference.  When the
\* upload request that created a deployment ends, the job record holds the
\* deployment's id and the request's poller is in its loop.
C39_CreatedDeploymentIsRecorded ==
  [][\A u \in UploadReqs :
       (/\ IsSet(uploads[u].deploymentId)
        /\ uploads[u].pc # "done"
        /\ uploads'[u].pc = "done") =>
         /\ inMemoryJobs'[uploads[u].publishId].vercel_deployment_id
              = uploads[u].deploymentId
         /\ pollers'[u].pc = "poll"
         /\ pollers'[u].deploymentId = uploads[u].deploymentId]_vars

====
